---- MODULE Spec2Model ----
(***************************************************************************)
(* A model of xml-helper-ts: the recursive-descent XmlParser, the          *)
(* XsdParser schema builder, the XmlValidator and the XmlHelper facade.    *)
(*                                                                         *)
(* Strings are sequences of UTF-16 code units (naturals), as JavaScript    *)
(* strings are; a "character" such as this.current() is a string of        *)
(* length 0 or 1.  An optional value (T | null, T | undefined) is a        *)
(* sequence of length 0 or 1.                                              *)
(***************************************************************************)
EXTENDS Integers, Sequences, FiniteSets, TLC

VARIABLES
  xml,        \* XmlParser.xml: the text being parsed
  position,   \* XmlParser.position
  line,       \* XmlParser.line
  column,     \* XmlParser.column
  pc,         \* where the running call stands
  frames,     \* the open parseElementContent activations, innermost last
  thrown,     \* the Error in flight between a throw and parse's catch
  result,     \* what parse returned: [node, errors]
  op,         \* the XmlHelper method being executed
  schema,     \* XmlHelper.schema (optional)
  validator,  \* XmlHelper.validator (optional): the schema it was built from
  validatorErrors, \* XmlHelper.validator.errors: which array it refers to
  arrays,     \* the arrays made for validators, each the list it holds
  log,        \* what each finished call parsed and which list it returned
  out,        \* what the last XmlHelper method returned
  script      \* the XmlHelper calls the client has still to make

vars == <<xml, position, line, column, pc, frames, thrown, result,
          op, schema, validator, validatorErrors, arrays, log, out, script>>

----------------------------------------------------------------------------
(* Characters                                                              *)

\* The UTF-16 code unit of each character the model writes literally.
Ord ==
  ("<" :> 60) @@ (">" :> 62) @@ ("/" :> 47) @@ ("!" :> 33) @@ ("?" :> 63) @@
  ("=" :> 61) @@ ("\"" :> 34) @@ ("'" :> 39) @@ ("&" :> 38) @@ (";" :> 59) @@
  ("#" :> 35) @@ ("-" :> 45) @@ (" " :> 32) @@ ("\t" :> 9) @@ ("\n" :> 10) @@
  ("\r" :> 13) @@ (":" :> 58) @@ ("." :> 46) @@ ("_" :> 95) @@ ("[" :> 91) @@
  ("]" :> 93) @@ ("{" :> 123) @@ ("}" :> 125) @@ ("+" :> 43) @@
  ("*" :> 42) @@ ("(" :> 40) @@ (")" :> 41) @@ ("|" :> 124) @@ ("^" :> 94) @@
  ("$" :> 36) @@ ("\\" :> 92) @@ ("," :> 44) @@ ("@" :> 64) @@ ("0" :> 48) @@ ("1" :> 49) @@
  ("2" :> 50) @@ ("3" :> 51) @@ ("4" :> 52) @@ ("5" :> 53) @@ ("6" :> 54) @@
  ("7" :> 55) @@ ("8" :> 56) @@ ("9" :> 57) @@ ("A" :> 65) @@ ("B" :> 66) @@
  ("C" :> 67) @@ ("D" :> 68) @@ ("E" :> 69) @@ ("F" :> 70) @@ ("G" :> 71) @@
  ("H" :> 72) @@ ("I" :> 73) @@ ("J" :> 74) @@ ("K" :> 75) @@ ("L" :> 76) @@
  ("M" :> 77) @@ ("N" :> 78) @@ ("O" :> 79) @@ ("P" :> 80) @@ ("Q" :> 81) @@
  ("R" :> 82) @@ ("S" :> 83) @@ ("T" :> 84) @@ ("U" :> 85) @@ ("V" :> 86) @@
  ("W" :> 87) @@ ("X" :> 88) @@ ("Y" :> 89) @@ ("Z" :> 90) @@ ("a" :> 97) @@
  ("b" :> 98) @@ ("c" :> 99) @@ ("d" :> 100) @@ ("e" :> 101) @@
  ("f" :> 102) @@ ("g" :> 103) @@ ("h" :> 104) @@ ("i" :> 105) @@
  ("j" :> 106) @@ ("k" :> 107) @@ ("l" :> 108) @@ ("m" :> 109) @@
  ("n" :> 110) @@ ("o" :> 111) @@ ("p" :> 112) @@ ("q" :> 113) @@
  ("r" :> 114) @@ ("s" :> 115) @@ ("t" :> 116) @@ ("u" :> 117) @@
  ("v" :> 118) @@ ("w" :> 119) @@ ("x" :> 120) @@ ("y" :> 121) @@ ("z" :> 122)

\* A string literal: the code units of a tuple of one-character strings.
S(t) == [i \in 1..Len(t) |-> Ord[t[i]]]

\* The one-character string c.
Ch(c) == <<Ord[c]>>

\* The one-character strings the program compares with.
Tab == <<9>>            \* tab
Newline == <<10>>       \* line feed
CarriageReturn == <<13>>        \* carriage return
Space == <<32>>         \* space
Bang == <<33>>          \* '!'
DoubleQuote == <<34>>   \* '"'
Hash == <<35>>          \* '#'
Ampersand == <<38>>     \* '&'
SingleQuote == <<39>>   \* '''
Minus == <<45>>         \* '-'
Slash == <<47>>         \* '/'
Zero == <<48>>          \* '0'
One == <<49>>           \* '1'
Colon == <<58>>         \* ':'
Semicolon == <<59>>     \* ';'
Lt == <<60>>            \* '<'
Equals == <<61>>        \* '='
Gt == <<62>>            \* '>'
Question == <<63>>      \* '?'

RECURSIVE Concat(_)
\* The concatenation of a sequence of strings.
Concat(ss) == IF ss = <<>> THEN <<>> ELSE Head(ss) \o Concat(Tail(ss))

\* String.prototype.startsWith
StartsWith(s, p) == Len(s) >= Len(p) /\ SubSeq(s, 1, Len(p)) = p

\* String.prototype.endsWith
EndsWith(s, p) == Len(s) >= Len(p) /\ SubSeq(s, Len(s) - Len(p) + 1, Len(s)) = p

\* String.prototype.slice(n) / substring(n) for 0 <= n
Slice(s, n) == SubSeq(s, n + 1, Len(s))

\* The value v, computed once, handed to the rest of a computation.
Let(v, F(_)) == CHOOSE r \in {F(x) : x \in {v}} : TRUE

\* The values v and w, each computed once, handed to the rest of a
\* computation.
Let2(v, w, F(_, _)) == CHOOSE r \in {F(x, y) : x \in {v}, y \in {w}} : TRUE

\* The ASCII and Latin-1 code units String.prototype.trim removes.
TrimSpace == {9, 10, 11, 12, 13, 32, 160}

RECURSIVE TrimStart(_)
TrimStart(string) ==
  Let(string,
      LAMBDA s : IF s # <<>> /\ Head(s) \in TrimSpace
                 THEN TrimStart(Tail(s)) ELSE s)

RECURSIVE TrimEnd(_)
TrimEnd(string) ==
  Let(string,
      LAMBDA s : IF s # <<>> /\ s[Len(s)] \in TrimSpace
                 THEN TrimEnd(SubSeq(s, 1, Len(s) - 1)) ELSE s)

\* String.prototype.trim
Trim(s) == TrimEnd(TrimStart(s))

----------------------------------------------------------------------------
(* XmlParser: the cursor                                                   *)

\* The cursor triple of the parser, as a value threaded through the scanners.
Cursor == [position |-> position, line |-> line, column |-> column]

\* current(): this.xml[this.position] || ''
current(c) == IF c.position < Len(xml) THEN <<xml[c.position + 1]>> ELSE <<>>

\* peek(offset = 1): this.xml[this.position + offset] || '' -- ONE code unit
peek(c, offset) ==
  IF c.position + offset < Len(xml) THEN <<xml[c.position + offset + 1]>>
  ELSE <<>>

\* advance(), with the newline bookkeeping left out.
advanceNoNewline(c) ==
  IF c.position < Len(xml)
  THEN [c EXCEPT !.position = @ + 1, !.column = @ + 1]
  ELSE c

\* advance()
advance(c) ==
  IF c.position < Len(xml)
  THEN IF xml[c.position + 1] = 10
       THEN [position |-> c.position + 1, line |-> c.line + 1, column |-> 1]
       ELSE [c EXCEPT !.position = @ + 1, !.column = @ + 1]
  ELSE c

\* isWhitespace(char)
isWhitespace(char) ==
  char \in {Space, Tab, Newline, CarriageReturn}

RECURSIVE skipWhitespace(_)
\* skipWhitespace()
skipWhitespace(cursor) ==
  Let(cursor,
      LAMBDA c : IF c.position < Len(xml) /\ isWhitespace(current(c))
                 THEN skipWhitespace(advance(c)) ELSE c)

\* The test of /[a-zA-Z_]/ on one code unit.
IsAsciiNameStart(u) ==
  \/ u \in 97..122
  \/ u \in 65..90
  \/ u = 95

\* The high code-unit ranges of isNameStartChar / isNameChar.
IsHighNameUnit(u) ==
  \/ u \in 192..214
  \/ u \in 216..246
  \/ u >= 248

\* isNameStartChar(char)
isNameStartChar(char) ==
  IF char = <<>> THEN FALSE
  ELSE IsAsciiNameStart(char[1]) \/ IsHighNameUnit(char[1])

\* isNameChar(char)
isNameChar(char) ==
  IF char = <<>> THEN FALSE
  ELSE \/ IsAsciiNameStart(char[1])
       \/ char[1] \in 48..57
       \/ char[1] \in {95, 58, 46, 45}
       \/ IsHighNameUnit(char[1])

----------------------------------------------------------------------------
(* XmlParser: the scanners.  Each takes a cursor and yields the cursor it  *)
(* leaves, the value it returns and, when it throws, the Error's message.  *)

Msg(text, args) == [text |-> text, args |-> args]
NoMsg == Msg("", <<>>)
Ok(c, v) == [c |-> c, v |-> v, threw |-> FALSE, message |-> NoMsg]
Throw(c, text, args) ==
  [c |-> c, v |-> <<>>, threw |-> TRUE, message |-> Msg(text, args)]

\* The result r of a scanner, computed once, handed to the rest of the
\* caller, unless the scanner threw: then the caller ends with the same
\* Error.
Then(r, F(_)) == CHOOSE q \in {IF x.threw THEN x ELSE F(x) : x \in {r}} : TRUE

RECURSIVE nameLoop(_, _)
\* parseName(): the while loop collecting name characters
nameLoop(cursor, collected) ==
  Let2(cursor, collected,
       LAMBDA c, name :
         IF c.position < Len(xml) /\ isNameChar(current(c))
         THEN nameLoop(advance(c), name \o current(c))
         ELSE Ok(c, name))

\* parseName()
parseName(c) ==
  IF ~isNameStartChar(current(c))
  THEN Throw(c, "Invalid name start character", <<current(c)>>)
  ELSE Then(nameLoop(c, <<>>),
            LAMBDA r : IF r.v = <<>>
                       THEN Throw(r.c, "Expected element name", <<>>)
                       ELSE r)

\* The value of code unit u as a digit (0-9, a-z, A-Z), or 36 when it is none.
DigitValue(u) ==
  IF u \in 48..57 THEN u - 48
  ELSE IF u \in 97..122 THEN u - 97 + 10
  ELSE IF u \in 65..90 THEN u - 65 + 10
  ELSE 36

RECURSIVE digitsLoop(_, _, _, _)
\* parseInt: the longest prefix of radix digits, as [seen, val]
digitsLoop(string, radix, seen, value) ==
  Let2(string, value,
       LAMBDA s, val :
         IF s # <<>> /\ DigitValue(Head(s)) < radix
         THEN digitsLoop(Tail(s), radix, TRUE,
                         val * radix + DigitValue(Head(s)))
         ELSE [seen |-> seen, val |-> val])

\* parseInt, after the white space, the sign and the choice of the radix:
\* the digits of u, after its 0x when prefixed
parseIntDigits(u, radix, prefixed, neg) ==
  Let(digitsLoop(IF prefixed THEN Slice(u, 2) ELSE u, radix, FALSE, 0),
      LAMBDA d : [nan |-> ~d.seen,
                  val |-> IF d.seen /\ neg THEN 0 - d.val ELSE d.val])

\* parseInt, after the white space and the sign: u is prefixed when it
\* starts with 0x or 0X and the radix is 16 or absent
parseIntPrefixed(u, radix, prefixed, neg) ==
  parseIntDigits(u, IF radix = 16 \/ prefixed THEN 16 ELSE 10, prefixed, neg)

\* parseInt, after the white space: the sign of t ('-' 45, '+' 43)
parseIntSigned(t, radix) ==
  Let(IF t # <<>> /\ Head(t) \in {45, 43} THEN Tail(t) ELSE t,
      LAMBDA u : parseIntPrefixed(
                   u, radix,
                   radix \in {0, 16} /\ (StartsWith(u, <<48, 120>>)
                                         \/ StartsWith(u, <<48, 88>>)),
                   t # <<>> /\ Head(t) = 45))

\* The global parseInt(string, radix) of ECMAScript, for radix 10, 16 and 0
\* (radix absent): leading white space and a sign are skipped; a prefix 0x
\* or 0X is skipped for radix 16 and selects radix 16 when the radix is
\* absent; the longest digit prefix is read; no digit at all gives NaN.
parseInt(string, radix) == parseIntSigned(TrimStart(string), radix)

\* String.fromCharCode(code) keeping every bit of the code (one unit per code).
fromCharCodeWide(code) == IF code.nan THEN <<0>> ELSE <<code.val>>

\* String.fromCharCode(code): ToUint16 of the number, NaN giving 0.
fromCharCode(code) == IF code.nan THEN <<0>> ELSE <<code.val % 65536>>

\* parseEntity(): the switch converting the entity's name ('amp', 'lt',
\* 'gt', 'quot', 'apos'; '#' and '#x' start a numeric reference)
entityText(entity) ==
  IF entity = <<97, 109, 112>> THEN Ampersand
  ELSE IF entity = <<108, 116>> THEN Lt
  ELSE IF entity = <<103, 116>> THEN Gt
  ELSE IF entity = <<113, 117, 111, 116>> THEN DoubleQuote
  ELSE IF entity = <<97, 112, 111, 115>> THEN SingleQuote
  ELSE IF StartsWith(entity, Hash)
       THEN fromCharCode(IF StartsWith(entity, <<35, 120>>)
                         THEN parseInt(Slice(entity, 2), 16)
                         ELSE parseInt(Slice(entity, 1), 10))
       ELSE Ampersand \o entity \o Semicolon

RECURSIVE entityLoop(_, _)
\* parseEntity(): the while loop reading up to ';'
entityLoop(cursor, collected) ==
  Let2(cursor, collected,
       LAMBDA c, entity :
         IF c.position < Len(xml) /\ current(c) # Semicolon
         THEN entityLoop(advance(c), entity \o current(c))
         ELSE Ok(c, entity))

\* parseEntity()
parseEntity(c) ==
  IF current(c) # Ampersand THEN Throw(c, "Expected entity", <<>>)
  ELSE Then(entityLoop(advance(c), <<>>),
            LAMBDA r : IF current(r.c) # Semicolon
                       THEN Throw(r.c, "Unterminated entity", <<>>)
                       ELSE Ok(advance(r.c), entityText(r.v)))

RECURSIVE valueLoop(_, _, _)
\* parseAttributeValue(): the while loop up to the closing quote
valueLoop(cursor, quote, collected) ==
  Let2(cursor, collected,
       LAMBDA c, value :
         IF c.position < Len(xml) /\ current(c) # quote
         THEN IF current(c) = Ampersand
              THEN Then(parseEntity(c),
                        LAMBDA e : valueLoop(e.c, quote, value \o e.v))
              ELSE valueLoop(advance(c), quote, value \o current(c))
         ELSE Ok(c, value))

\* parseAttributeValue(), after the opening quote
quotedValue(c, quote) ==
  Then(valueLoop(c, quote, <<>>),
       LAMBDA r : IF current(r.c) # quote
                  THEN Throw(r.c, "Unterminated attribute value", <<>>)
                  ELSE Ok(advance(r.c), r.v))

\* parseAttributeValue()
parseAttributeValue(c) ==
  IF current(c) # DoubleQuote /\ current(c) # SingleQuote
  THEN Throw(c, "Expected quote but found", <<current(c)>>)
  ELSE Let(current(c), LAMBDA quote : quotedValue(advance(c), quote))

\* '__proto__', the inherited accessor that gives Object.prototype itself
StrProto == <<95, 95, 112, 114, 111, 116, 111, 95, 95>>

\* attributes[name] = value on a Record<string, string>, kept as the sequence
\* of its entries in insertion order: an existing key keeps its place.  The
\* name '__proto__' reaches the setter of Object.prototype, which ignores a
\* string: no entry is made.
SetAttribute(attributes, name, value) ==
  IF name = StrProto THEN attributes
  ELSE IF \E i \in 1..Len(attributes) : attributes[i].name = name
  THEN [i \in 1..Len(attributes) |->
          IF attributes[i].name = name
          THEN [name |-> name, value |-> value] ELSE attributes[i]]
  ELSE Append(attributes, [name |-> name, value |-> value])

\* attributes[name] !== undefined
HasAttribute(attributes, name) ==
  \E i \in 1..Len(attributes) : attributes[i].name = name

\* attributes[name], for a name that is present
GetAttribute(attributes, name) ==
  attributes[CHOOSE i \in 1..Len(attributes) : attributes[i].name = name].value

RECURSIVE attributesLoop(_, _)

\* parseAttributes(): one round of the loop after its parseName returned n
\* and the white space after it was skipped up to c
attributeAfterName(c, n, attributes) ==
  IF current(c) # Equals
  THEN Throw(c, "Expected '=' after attribute name", <<n.v>>)
  ELSE Then(parseAttributeValue(skipWhitespace(advance(c))),
            LAMBDA v : attributesLoop(v.c, SetAttribute(attributes, n.v, v.v)))

\* parseAttributes(): one round of the loop after its first skipWhitespace
attributeRound(cursor, attributes) ==
  Let(cursor,
      LAMBDA c :
        IF current(c) \in {Gt, Slash, Question}
        THEN Ok(c, attributes)
        ELSE Then(parseName(c),
                  LAMBDA n : Let(skipWhitespace(n.c),
                                 LAMBDA c1 : attributeAfterName(c1, n,
                                                                attributes))))

\* parseAttributes(): the while loop, one attribute per round
attributesLoop(cursor, collected) ==
  Let2(cursor, collected,
       LAMBDA c, attributes :
         IF c.position < Len(xml)
         THEN attributeRound(skipWhitespace(c), attributes)
         ELSE Ok(c, attributes))

\* parseAttributes()
parseAttributes(c) == attributesLoop(c, <<>>)

RECURSIVE declarationLoop(_)
\* skipDeclaration(): the while loop up to '?>'
declarationLoop(cursor) ==
  Let(cursor,
      LAMBDA c : IF /\ c.position < Len(xml)
                    /\ ~(current(c) = Question /\ peek(c, 1) = Gt)
                 THEN declarationLoop(advance(c)) ELSE c)

\* skipDeclaration(), after the loop
declarationEnd(c) ==
  Let(IF current(c) = Question THEN advance(c) ELSE c,
      LAMBDA c2 : IF current(c2) = Gt THEN advance(c2) ELSE c2)

\* skipDeclaration()
skipDeclaration(c) == declarationEnd(declarationLoop(c))

RECURSIVE xmlCommentLoop(_)
\* skipXmlComment(): the while loop up to '-->'
xmlCommentLoop(cursor) ==
  Let(cursor,
      LAMBDA c :
        IF c.position < Len(xml) - 2
        THEN IF SubSeq(xml, c.position + 1, c.position + 3) = <<45, 45, 62>>
             THEN [c EXCEPT !.position = @ + 3]
             ELSE xmlCommentLoop(advance(c))
        ELSE c)

\* skipXmlComment(): position += 4 bypasses advance()
skipXmlComment(c) == xmlCommentLoop([c EXCEPT !.position = @ + 4])

RECURSIVE doctypeLoop(_, _)
\* skipDoctype(): the while loop counting '<' and '>'
doctypeLoop(cursor, count) ==
  Let2(cursor, count,
       LAMBDA c, depth :
         IF c.position < Len(xml)
         THEN IF current(c) = Lt THEN doctypeLoop(advance(c), depth + 1)
              ELSE IF current(c) = Gt
                   THEN IF depth - 1 = 0 THEN advance(c)
                        ELSE doctypeLoop(advance(c), depth - 1)
                   ELSE doctypeLoop(advance(c), depth)
         ELSE c)

\* skipDoctype()
skipDoctype(c) == doctypeLoop(c, 0)

\* skipComment(): peek(n) is ONE code unit, compared with a longer literal
skipComment(c) ==
  IF peek(c, 4) = <<60, 33, 45, 45>> THEN skipXmlComment(c)
  ELSE IF peek(c, 9) = <<60, 33, 68, 79, 67, 84, 89, 80, 69>>
       THEN skipDoctype(c)
       ELSE c

RECURSIVE skipProcessingInstruction(_)
\* skipProcessingInstruction()
skipProcessingInstruction(cursor) ==
  Let(cursor,
      LAMBDA c :
        IF c.position < Len(xml) - 1
        THEN IF current(c) = Question /\ peek(c, 1) = Gt
             THEN advance(advance(c))
             ELSE skipProcessingInstruction(advance(c))
        ELSE c)

----------------------------------------------------------------------------
(* XmlParser: parse, parseElement, parseElementContent, parseEndTag        *)

\* An XmlNode; text is absent (<<>>) or present (<<string>>).
XmlNode(name, attributes, children, text) ==
  [name |-> name, attributes |-> attributes, children |-> children,
   text |-> text]

\* The name of a synthetic text child.
TextName == <<35, 116, 101, 120, 116>>

\* A ValidationError.
ValidationError(l, c, message, code) ==
  [line |-> l, column |-> c, message |-> message, code |-> code]

\* No parse result yet.
NoResult == [node |-> <<>>, errors |-> <<>>]

\* buildElementNode with the children.length === 0 test left out.
buildElementNodeAlways(name, attributes, children, text) ==
  Let(Trim(text),
      LAMBDA trimmed : XmlNode(name, attributes, children,
                               IF trimmed # <<>> THEN <<trimmed>> ELSE <<>>))

\* buildElementNode(name, attributes, children, text)
buildElementNode(name, attributes, children, text) ==
  Let(Trim(text),
      LAMBDA trimmed : XmlNode(name, attributes, children,
                               IF trimmed # <<>> /\ Len(children) = 0
                               THEN <<trimmed>> ELSE <<>>))

\* parse()'s catch, returning the error twice.
catchResultTwice(c, message) ==
  [node |-> <<>>,
   errors |-> <<ValidationError(c.line, c.column, message, "PARSE_ERROR"),
                ValidationError(c.line, c.column, message, "PARSE_ERROR")>>]

\* parse(): what the catch block returns
catchResult(c, message) ==
  [node |-> <<>>,
   errors |-> <<ValidationError(c.line, c.column, message, "PARSE_ERROR")>>]

\* parseEndTag(expectedName), after the name of the end tag was read
endTagAfterName(c, endTagName, expectedName) ==
  IF endTagName # expectedName
  THEN Throw(c, "End tag does not match start tag",
             <<endTagName, expectedName>>)
  ELSE Let(skipWhitespace(c),
           LAMBDA c1 : IF current(c1) # Gt
                       THEN Throw(c1, "Expected '>' in end tag", <<>>)
                       ELSE Ok(advance(c1), <<>>))

\* parseEndTag(expectedName)
parseEndTag(c, expectedName) ==
  IF current(c) = Lt /\ peek(c, 1) = Slash
  THEN Then(parseName(advance(advance(c))),
            LAMBDA n : endTagAfterName(n.c, n.v, expectedName))
  ELSE Ok(c, <<>>)

\* The cursor fields take the values of cursor c.
SetCursor(c) ==
  /\ position' = c.position
  /\ line' = c.line
  /\ column' = c.column

\* An Error with this message is thrown at cursor c: control goes to the
\* catch block of parse().
Raise(c, message) ==
  /\ SetCursor(c)
  /\ thrown' = <<message>>
  /\ pc' = "catch"
  /\ UNCHANGED <<frames, result>>

\* A parseElement call returns node at cursor c: to the caller's children
\* list (parseElementContent, line 107) or to parse() (line 41).
ReturnNode(c, node, callers) ==
  /\ SetCursor(c)
  /\ thrown' = thrown
  /\ IF callers = <<>>
     THEN /\ result' = [node |-> <<node>>, errors |-> <<>>]
          /\ frames' = callers
          /\ pc' = "return"
     ELSE /\ result' = result
          /\ frames' = [callers EXCEPT ![Len(callers)].children =
                                          Append(@, node)]
          /\ pc' = "content"

\* parse(), lines 10-14, with the resets of position, line and column left
\* out.
ParseBeginNoReset(xmlString) ==
  /\ xml' = xmlString
  /\ UNCHANGED <<position, line, column>>
  /\ frames' = <<>>
  /\ thrown' = <<>>
  /\ result' = NoResult
  /\ pc' = "parse"

\* parse(), lines 10-14: the fields are reset for the text xmlString
ParseBegin(xmlString) ==
  /\ xml' = xmlString
  /\ position' = 0
  /\ line' = 1
  /\ column' = 1
  /\ frames' = <<>>
  /\ thrown' = <<>>
  /\ result' = NoResult
  /\ pc' = "parse"

\* parse(), lines 17-23: leading white space and the XML declaration
\* ('<?xml'); peek(5) is one code unit
ParseStart ==
  /\ pc = "parse"
  /\ \E c1 \in {skipWhitespace(Cursor)} :
       SetCursor(IF peek(c1, 5) = <<60, 63, 120, 109, 108>>
                 THEN skipWhitespace(skipDeclaration(c1)) ELSE c1)
  /\ pc' = "prolog"
  /\ UNCHANGED <<xml, frames, thrown, result, op, schema, validator,
                 validatorErrors, arrays, log, out, script>>

\* parse(), lines 26-39: the test of the prolog loop and its branch
PrologLoop ==
  /\ pc = "prolog"
  /\ pc' = IF position < Len(xml) /\ current(Cursor) = Lt
           THEN IF peek(Cursor, 1) = Bang THEN "skipComment"
                ELSE IF peek(Cursor, 1) = Question THEN "skipPI"
                ELSE "parseElement"
           ELSE "parseElement"
  /\ UNCHANGED <<xml, position, line, column, frames, thrown, result,
                 op, schema, validator,
                 validatorErrors, arrays, log, out, script>>

\* parse(), lines 29-30: skipComment(); skipWhitespace()
SkipComment ==
  /\ pc = "skipComment"
  /\ SetCursor(skipWhitespace(skipComment(Cursor)))
  /\ pc' = "prolog"
  /\ UNCHANGED <<xml, frames, thrown, result, op, schema, validator,
                 validatorErrors, arrays, log, out, script>>

\* parse(), lines 33-34: skipProcessingInstruction(); skipWhitespace()
SkipProcessingInstruction ==
  /\ pc = "skipPI"
  /\ SetCursor(skipWhitespace(skipProcessingInstruction(Cursor)))
  /\ pc' = "prolog"
  /\ UNCHANGED <<xml, frames, thrown, result, op, schema, validator,
                 validatorErrors, arrays, log, out, script>>

\* parseElement(), lines 69-81: the end of the start tag; empty tells a
\* self-closing tag
startTagEnd(cursor, name, attributes) ==
  Let(cursor,
      LAMBDA c :
        IF current(c) = Slash /\ peek(c, 1) = Gt
        THEN Ok(advance(advance(c)),
                [name |-> name, attributes |-> attributes, empty |-> TRUE])
        ELSE IF current(c) # Gt
        THEN Throw(c, "Expected '>' but found", <<current(c)>>)
        ELSE Ok(advance(c),
                [name |-> name, attributes |-> attributes, empty |-> FALSE]))

\* parseElement(), lines 61-67, after the '<' was skipped
startTagName(cursor) ==
  Let(cursor,
      LAMBDA c :
        IF current(c) = Slash THEN Throw(c, "Unexpected end tag", <<>>)
        ELSE Then(parseName(c),
                  LAMBDA n : Then(parseAttributes(n.c),
                                  LAMBDA a : startTagEnd(skipWhitespace(a.c),
                                                         n.v, a.v))))

\* parseElement(), lines 55-81: the start tag
startTag(c) ==
  IF current(c) # Lt
  THEN Throw(c, "Expected '<' but found", <<current(c)>>)
  ELSE startTagName(advance(c))

\* parseElement(), lines 54-84: the start tag; a self-closing element
\* returns, any other opens a parseElementContent activation
ParseElement ==
  /\ pc = "parseElement"
  /\ \E t \in {startTag(Cursor)} :
       IF t.threw THEN Raise(t.c, t.message)
       ELSE IF t.v.empty
       THEN ReturnNode(t.c, XmlNode(t.v.name, t.v.attributes, <<>>, <<>>),
                       frames)
       ELSE /\ SetCursor(t.c)
            /\ frames' = Append(frames, [name |-> t.v.name,
                                         attributes |-> t.v.attributes,
                                         children |-> <<>>, text |-> <<>>])
            /\ pc' = "content"
            /\ UNCHANGED <<thrown, result>>
  /\ UNCHANGED <<xml, op, schema, validator,
                 validatorErrors, arrays, log, out, script>>

\* parseElementContent(), lines 90-115: one round of the content loop
ParseElementContent ==
  /\ pc = "content"
  /\ \E c1 \in {skipWhitespace(Cursor)}, top \in {frames[Len(frames)]} :
       IF ~(position < Len(xml))
       THEN /\ pc' = "endTag"
            /\ UNCHANGED <<position, line, column, frames>>
       ELSE IF current(c1) = Lt
       THEN IF peek(c1, 1) = Slash
            THEN /\ SetCursor(c1)
                 /\ pc' = "endTag"
                 /\ UNCHANGED frames
            ELSE /\ SetCursor(c1)
                 /\ frames' =
                      IF Trim(top.text) # <<>>
                      THEN [frames EXCEPT
                              ![Len(frames)].children =
                                 Append(@, XmlNode(TextName, <<>>, <<>>,
                                                   <<Trim(top.text)>>)),
                              ![Len(frames)].text = <<>>]
                      ELSE frames
                 /\ pc' = "parseElement"
       ELSE /\ SetCursor(advance(c1))
            /\ frames' = [frames EXCEPT ![Len(frames)].text = @ \o current(c1)]
            /\ pc' = "content"
  /\ UNCHANGED <<xml, thrown, result, op, schema, validator,
                 validatorErrors, arrays, log, out, script>>

\* parseElementContent(), lines 117-119: parseEndTag(name), then the node
\* built by buildElementNode is returned
CloseElement ==
  /\ pc = "endTag"
  /\ \E top \in {frames[Len(frames)]} :
       \E e \in {parseEndTag(Cursor, top.name)} :
         IF e.threw THEN Raise(e.c, e.message)
         ELSE ReturnNode(e.c,
                         buildElementNode(top.name, top.attributes,
                                          top.children, top.text),
                         SubSeq(frames, 1, Len(frames) - 1))
  /\ UNCHANGED <<xml, op, schema, validator,
                 validatorErrors, arrays, log, out, script>>

\* parse(), lines 43-51: the catch block
Catch ==
  /\ pc = "catch"
  /\ result' = catchResult(Cursor, thrown[1])
  /\ frames' = <<>>
  /\ pc' = "return"
  /\ UNCHANGED <<xml, position, line, column, thrown,
                 op, schema, validator,
                 validatorErrors, arrays, log, out, script>>

----------------------------------------------------------------------------
(* JavaScript values used by the schema builder and the validator          *)

\* value || fallback on an optional string: undefined and '' are falsy.
OrElse(opt, fallback) == IF opt = <<>> \/ opt[1] = <<>> THEN fallback ELSE opt[1]

\* record[key] on a Record<string, string> of own entries: absent or value
Prop(attributes, key) ==
  IF HasAttribute(attributes, key) THEN <<GetAttribute(attributes, key)>>
  ELSE <<>>

\* Whether every code unit of s is a decimal digit.
AllDigits(s) == \A i \in 1..Len(s) : s[i] \in 48..57

\* Number(string), for the numerals of the model: white space around an
\* optionally signed decimal integer, and the empty string (0); any other
\* string gives NaN.
ToNumber(s) ==
  LET t == Trim(s)
      u == IF t # <<>> /\ Head(t) \in {45, 43} THEN Tail(t) ELSE t
  IN IF t = <<>> THEN [nan |-> FALSE, val |-> 0]
     ELSE IF u # <<>> /\ AllDigits(u) THEN parseInt(t, 10)
     ELSE [nan |-> TRUE, val |-> 0]

RECURSIVE NatToString(_)
\* The decimal digits of a natural number.
NatToString(n) ==
  IF n < 10 THEN <<48 + n>>
  ELSE NatToString(n \div 10) \o <<48 + (n % 10)>>

\* String(number) for an integer
NumberToString(n) ==
  IF n < 0 THEN Minus \o NatToString(0 - n) ELSE NatToString(n)

----------------------------------------------------------------------------
(* XsdParser                                                               *)

\* getLocalName(name): the text after the first ':'
getLocalName(name) ==
  IF \E i \in 1..Len(name) : name[i] = 58
  THEN Slice(name, CHOOSE i \in 1..Len(name) :
                     /\ name[i] = 58
                     /\ \A j \in 1..(i - 1) : name[j] # 58)
  ELSE name

\* The string literals of the schema builder.
\* 'string'
StrString == <<115, 116, 114, 105, 110, 103>>
\* 'schema'
StrSchema == <<115, 99, 104, 101, 109, 97>>
\* 'element'
StrElement == <<101, 108, 101, 109, 101, 110, 116>>
\* 'complexType'
StrComplexType == <<99, 111, 109, 112, 108, 101, 120, 84, 121, 112, 101>>
\* 'simpleType'
StrSimpleType == <<115, 105, 109, 112, 108, 101, 84, 121, 112, 101>>
\* 'sequence'
StrSequence == <<115, 101, 113, 117, 101, 110, 99, 101>>
\* 'choice'
StrChoice == <<99, 104, 111, 105, 99, 101>>
\* 'all'
StrAll == <<97, 108, 108>>
\* 'attribute'
StrAttribute == <<97, 116, 116, 114, 105, 98, 117, 116, 101>>
\* 'restriction'
StrRestriction == <<114, 101, 115, 116, 114, 105, 99, 116, 105, 111, 110>>
\* 'name'
StrName == <<110, 97, 109, 101>>
\* 'type'
StrType == <<116, 121, 112, 101>>
\* 'minOccurs'
StrMinOccurs == <<109, 105, 110, 79, 99, 99, 117, 114, 115>>
\* 'maxOccurs'
StrMaxOccurs == <<109, 97, 120, 79, 99, 99, 117, 114, 115>>
\* 'unbounded'
StrUnbounded == <<117, 110, 98, 111, 117, 110, 100, 101, 100>>
\* '#inline-'
StrInline == <<35, 105, 110, 108, 105, 110, 101, 45>>
\* 'base'
StrBase == <<98, 97, 115, 101>>
\* 'value'
StrValue == <<118, 97, 108, 117, 101>>
\* 'use'
StrUse == <<117, 115, 101>>
\* 'optional'
StrOptional == <<111, 112, 116, 105, 111, 110, 97, 108>>
\* 'required'
StrRequired == <<114, 101, 113, 117, 105, 114, 101, 100>>
\* 'default'
StrDefault == <<100, 101, 102, 97, 117, 108, 116>>
\* 'fixed'
StrFixed == <<102, 105, 120, 101, 100>>
\* 'xmlns'
StrXmlns == <<120, 109, 108, 110, 115>>
\* 'targetNamespace'
StrTargetNamespace ==
  <<116, 97, 114, 103, 101, 116, 78, 97, 109, 101, 115, 112, 97, 99, 101>>

\* map[def.name] = def on a Record<string, Def>, kept as the sequence of its
\* entries in insertion order.
SetDef(map, def) ==
  IF \E i \in 1..Len(map) : map[i].name = def.name
  THEN [i \in 1..Len(map) |-> IF map[i].name = def.name THEN def ELSE map[i]]
  ELSE Append(map, def)

\* map[key] on a Record<string, Def> of own entries: absent or the entry
GetDef(map, key) ==
  IF \E i \in 1..Len(map) : map[i].name = key
  THEN <<map[CHOOSE i \in 1..Len(map) : map[i].name = key]>>
  ELSE <<>>

RECURSIVE restrictionFacets(_, _)
\* parseSimpleType(): the loop over the children of one restriction element
restrictionFacets(children, restrictions) ==
  IF children = <<>> THEN restrictions
  ELSE LET restrictionChild == Head(children)
           value == Prop(restrictionChild.attributes, StrValue)
       IN restrictionFacets(
            Tail(children),
            IF value # <<>>
            THEN Append(restrictions,
                        [type |-> getLocalName(restrictionChild.name),
                         value |-> IF ToNumber(value[1]).nan
                                   THEN [isNumber |-> FALSE, number |-> 0,
                                         string |-> value[1]]
                                   ELSE [isNumber |-> TRUE,
                                         number |-> ToNumber(value[1]).val,
                                         string |-> NumberToString(
                                                      ToNumber(value[1]).val)]])
            ELSE restrictions)

RECURSIVE simpleTypeLoop(_, _)
\* parseSimpleType(): the loop over the simpleType's children
simpleTypeLoop(children, simpleType) ==
  IF children = <<>> THEN simpleType
  ELSE LET child == Head(children)
       IN simpleTypeLoop(
            Tail(children),
            IF getLocalName(child.name) = StrRestriction
            THEN [simpleType EXCEPT
                    !.baseType = OrElse(Prop(child.attributes, StrBase),
                                        StrString),
                    !.restrictions = restrictionFacets(child.children, @)]
            ELSE simpleType)

\* parseSimpleType(simpleTypeNode)
parseSimpleType(simpleTypeNode) ==
  simpleTypeLoop(simpleTypeNode.children,
                 [name |-> OrElse(Prop(simpleTypeNode.attributes, StrName), <<>>),
                  baseType |-> StrString,
                  restrictions |-> <<>>])

\* parseAttribute(attributeNode)
parseAttribute(attributeNode) ==
  [name |-> OrElse(Prop(attributeNode.attributes, StrName), <<>>),
   type |-> OrElse(Prop(attributeNode.attributes, StrType), StrString),
   use |-> OrElse(Prop(attributeNode.attributes, StrUse), StrOptional),
   defaultValue |-> Prop(attributeNode.attributes, StrDefault),
   fixedValue |-> Prop(attributeNode.attributes, StrFixed)]

RECURSIVE elementTypeLoop(_, _)
\* XsdParser.parseElement(): the loop over the element's children.  The
\* complex type parsed for an inline complexType child is discarded.
elementTypeLoop(children, element) ==
  IF children = <<>> THEN element
  ELSE LET child == Head(children)
           localName == getLocalName(child.name)
       IN elementTypeLoop(
            Tail(children),
            IF localName = StrComplexType
            THEN [element EXCEPT !.type = StrInline \o element.name]
            ELSE IF localName = StrSimpleType
            THEN [element EXCEPT
                    !.type = StrInline \o element.name,
                    !.restrictions = <<parseSimpleType(child).restrictions>>]
            ELSE element)

\* XsdParser.parseElement(elementNode)
xsdParseElement(elementNode) ==
  elementTypeLoop(
    elementNode.children,
    [name |-> OrElse(Prop(elementNode.attributes, StrName), <<>>),
     type |-> OrElse(Prop(elementNode.attributes, StrType), StrString),
     minOccurs |-> parseInt(OrElse(Prop(elementNode.attributes, StrMinOccurs),
                                   One), 0),
     maxOccurs |->
       IF Prop(elementNode.attributes, StrMaxOccurs) = <<StrUnbounded>>
       THEN [unbounded |-> TRUE, number |-> [nan |-> FALSE, val |-> 0]]
       ELSE [unbounded |-> FALSE,
             number |-> parseInt(OrElse(Prop(elementNode.attributes,
                                             StrMaxOccurs), One), 0)],
     restrictions |-> <<>>])

RECURSIVE sequenceElements(_, _)
\* parseComplexType(): the loop over the children of a sequence/choice/all
sequenceElements(children, elements) ==
  IF children = <<>> THEN elements
  ELSE sequenceElements(
         Tail(children),
         IF getLocalName(Head(children).name) = StrElement
         THEN Append(elements, xsdParseElement(Head(children)))
         ELSE elements)

RECURSIVE complexTypeLoop(_, _)
\* parseComplexType(): the loop over the complexType's children
complexTypeLoop(children, complexType) ==
  IF children = <<>> THEN complexType
  ELSE LET child == Head(children)
           localName == getLocalName(child.name)
       IN complexTypeLoop(
            Tail(children),
            IF localName \in {StrSequence, StrChoice, StrAll}
            THEN [complexType EXCEPT
                    !.elements = sequenceElements(child.children, @)]
            ELSE IF localName = StrAttribute
            THEN [complexType EXCEPT
                    !.attributes = Append(@, parseAttribute(child))]
            ELSE complexType)

\* parseComplexType(complexTypeNode)
parseComplexType(complexTypeNode) ==
  complexTypeLoop(complexTypeNode.children,
                  [name |-> OrElse(Prop(complexTypeNode.attributes, StrName),
                                   <<>>),
                   elements |-> <<>>,
                   attributes |-> <<>>])

RECURSIVE namespaceLoop(_, _)
\* buildSchema(): the loop harvesting xmlns declarations
namespaceLoop(attributes, namespaces) ==
  IF attributes = <<>> THEN namespaces
  ELSE LET key == Head(attributes).name
           value == Head(attributes).value
       IN namespaceLoop(
            Tail(attributes),
            IF StartsWith(key, StrXmlns \o Colon)
            THEN SetAttribute(namespaces, Slice(key, 6), value)
            ELSE IF key = StrXmlns
            THEN SetAttribute(namespaces, <<>>, value)
            ELSE namespaces)

RECURSIVE schemaLoop(_, _)
\* buildSchema(): the loop over the schema root's children
schemaLoop(children, sch) ==
  IF children = <<>> THEN sch
  ELSE LET child == Head(children)
           localName == getLocalName(child.name)
       IN schemaLoop(
            Tail(children),
            IF localName = StrElement
            THEN [sch EXCEPT !.elements = SetDef(@, xsdParseElement(child))]
            ELSE IF localName = StrComplexType
            THEN [sch EXCEPT !.complexTypes = SetDef(@, parseComplexType(child))]
            ELSE IF localName = StrSimpleType
            THEN [sch EXCEPT !.simpleTypes = SetDef(@, parseSimpleType(child))]
            ELSE sch)

\* buildSchema(schemaNode): the schema, or the Error thrown
buildSchema(schemaNode) ==
  IF schemaNode.name # StrSchema /\ ~EndsWith(schemaNode.name, Colon \o StrSchema)
  THEN [threw |-> TRUE, message |-> Msg("Root element must be schema", <<>>),
        schema |-> <<>>]
  ELSE [threw |-> FALSE, message |-> NoMsg,
        schema |-> <<schemaLoop(
                       schemaNode.children,
                       [targetNamespace |-> Prop(schemaNode.attributes,
                                                 StrTargetNamespace),
                        elements |-> <<>>,
                        complexTypes |-> <<>>,
                        simpleTypes |-> <<>>,
                        namespaces |-> namespaceLoop(schemaNode.attributes,
                                                     <<>>)])>>]

\* parseSchema(), lines 223-233: the try block around buildSchema, b being
\* what buildSchema did
schemaBuilt(r, b) ==
  IF b.threw
  THEN [schema |-> <<>>,
        errors |-> Append(r.errors,
                          ValidationError(1, 1, b.message, "SCHEMA_ERROR"))]
  ELSE [schema |-> b.schema, errors |-> <<>>]

\* parseSchema with the test of line 218 left out: buildSchema always runs.
parseSchemaUnguarded(r) ==
  schemaBuilt(r, IF r.node = <<>>
                 THEN [threw |-> TRUE, message |-> NoMsg, schema |-> <<>>]
                 ELSE buildSchema(r.node[1]))

\* parseSchema(xsdString), after this.xmlParser.parse(xsdString) returned r
parseSchema(r) ==
  IF Len(r.errors) > 0 \/ r.node = <<>>
  THEN [schema |-> <<>>, errors |-> r.errors]
  ELSE schemaBuilt(r, buildSchema(r.node[1]))

----------------------------------------------------------------------------
(* RegExp: the ECMAScript regular expressions the validator compiles and   *)
(* tests.  Modelled: alternation, groups, the quantifiers * + ? {n} {n,}   *)
(* {n,m}, character classes with ranges and negation, the escapes \d \w \s *)
(* \D \W \S \n \t \r and escaped literals, the dot, and the anchors ^ $.   *)
(* A pattern is compiled to a tree; test() searches for a match starting   *)
(* at any offset of the string (no flag is ever passed).                   *)

DigitUnits == 48..57
WordUnits == DigitUnits \cup (97..122) \cup (65..90)
               \cup {95}
LineTerminators == {10, 13, 8232, 8233}

ReSet(neg, units) == [kind |-> "set", neg |-> neg, units |-> units]
ReFail(i) == [ok |-> FALSE, node |-> ReSet(FALSE, {}), next |-> i]
ReOk(node, i) == [ok |-> TRUE, node |-> node, next |-> i]

\* The index after the decimal digits of p that start at index i.
RECURSIVE digitsEnd(_, _)
digitsEnd(p, i) ==
  IF i <= Len(p) /\ p[i] \in DigitUnits THEN digitsEnd(p, i + 1) ELSE i

\* No quantifier is written at index i: the atom is matched once.
NoQuantifier(i) == [is |-> FALSE, min |-> 1, max |-> 1, next |-> i]

\* The quantifier with these limits that ends before index next; max = -1
\* stands for no upper limit.
Quantifier(min, max, next) == [is |-> TRUE, min |-> min, max |-> max, next |-> next]

\* A brace quantifier whose first number spans the indices i + 1 .. a - 1 of
\* p and whose second number, if any, ends before index b.
braceLimits(p, i, a, b) ==
  IF a = i + 1 \/ a > Len(p) THEN NoQuantifier(i)
  ELSE IF p[a] = 125
  THEN Let(parseInt(SubSeq(p, i + 1, a - 1), 10).val,
           LAMBDA lo : Quantifier(lo, lo, a + 1))
  ELSE IF p[a] = 44 /\ b <= Len(p) /\ p[b] = 125
  THEN Quantifier(parseInt(SubSeq(p, i + 1, a - 1), 10).val,
                  IF b = a + 1 THEN -1
                  ELSE parseInt(SubSeq(p, a + 1, b - 1), 10).val,
                  b + 1)
  ELSE NoQuantifier(i)

\* A brace quantifier {n} {n,} {n,m} at index i of p (p[i] is '{'), if one
\* is written there ('}' is 125, ',' is 44).
braceQuantifier(p, i) ==
  Let(digitsEnd(p, i + 1),
      LAMBDA a : braceLimits(p, i, a, digitsEnd(p, a + 1)))

\* The units a class escape (\d \D \w \W \s \S), a control escape (\n \t
\* \r) or an escaped character stands for.
escapeSet(e) ==
  IF e = 100 THEN ReSet(FALSE, DigitUnits)
  ELSE IF e = 68 THEN ReSet(TRUE, DigitUnits)
  ELSE IF e = 119 THEN ReSet(FALSE, WordUnits)
  ELSE IF e = 87 THEN ReSet(TRUE, WordUnits)
  ELSE IF e = 115 THEN ReSet(FALSE, TrimSpace)
  ELSE IF e = 83 THEN ReSet(TRUE, TrimSpace)
  ELSE IF e = 110 THEN ReSet(FALSE, {10})
  ELSE IF e = 116 THEN ReSet(FALSE, {9})
  ELSE IF e = 114 THEN ReSet(FALSE, {13})
  ELSE ReSet(FALSE, {e})

RECURSIVE classItems(_, _, _)
\* The members of a character class from index i of p up to its ']' (93):
\* single units, escapes (after '\', 92) and ranges lo-hi ('-' is 45).
classItems(p, i, units) ==
  IF i > Len(p) THEN [ok |-> FALSE, units |-> units, next |-> i]
  ELSE IF p[i] = 93 THEN [ok |-> TRUE, units |-> units, next |-> i + 1]
  ELSE IF p[i] = 92
  THEN IF i + 1 > Len(p) THEN [ok |-> FALSE, units |-> units, next |-> i]
       ELSE classItems(p, i + 2, units \cup escapeSet(p[i + 1]).units)
  ELSE IF i + 2 <= Len(p) /\ p[i + 1] = 45 /\ p[i + 2] # 93
  THEN IF p[i] > p[i + 2] THEN [ok |-> FALSE, units |-> units, next |-> i]
       ELSE classItems(p, i + 3, units \cup (p[i]..p[i + 2]))
  ELSE classItems(p, i + 1, units \cup {p[i]})

RECURSIVE reDisjunction(_, _)
RECURSIVE reAlternative(_, _, _)
RECURSIVE reTerm(_, _)

\* The atom a group makes: its disjunction, closed by ')' (41).
reGroup(p, i, group) ==
  IF group.ok /\ group.next <= Len(p) /\ p[group.next] = 41
  THEN ReOk(group.node, group.next + 1) ELSE ReFail(i)

\* The atom a character class makes.
reClass(i, neg, class) ==
  IF class.ok THEN ReOk(ReSet(neg, class.units), class.next) ELSE ReFail(i)

\* One atom, from index i of p: an anchor ('^' 94, '$' 36), a group ('('
\* 40, with '?:' 63 58 or without), a class ('[' 91), the dot (46), an
\* escape ('\' 92) or a character that is no syntax character ('*' 42,
\* '+' 43, '?' 63, ')' 41, and '{' 123 when it starts a quantifier).
reAtom(p, i) ==
  IF p[i] = 94 THEN ReOk([kind |-> "bol"], i + 1)
  ELSE IF p[i] = 36 THEN ReOk([kind |-> "eol"], i + 1)
  ELSE IF p[i] = 40
  THEN reGroup(p, i, reDisjunction(p, IF StartsWith(Slice(p, i), <<63, 58>>)
                                      THEN i + 3 ELSE i + 1))
  ELSE IF p[i] = 91
  THEN IF i + 1 <= Len(p) /\ p[i + 1] = 94
       THEN reClass(i, TRUE, classItems(p, i + 2, {}))
       ELSE reClass(i, FALSE, classItems(p, i + 1, {}))
  ELSE IF p[i] = 46 THEN ReOk(ReSet(TRUE, LineTerminators), i + 1)
  ELSE IF p[i] = 92
  THEN IF i + 1 > Len(p) THEN ReFail(i)
       ELSE ReOk(escapeSet(p[i + 1]), i + 2)
  ELSE IF p[i] \in {42, 43, 63, 41} THEN ReFail(i)
  ELSE IF p[i] = 123 /\ braceQuantifier(p, i).is THEN ReFail(i)
  ELSE ReOk(ReSet(FALSE, {p[i]}), i + 1)

\* The quantifier written at index j of p, if any: '*' 42, '+' 43, '?' 63
\* or a brace quantifier ('{' 123).
reQuantifier(p, j) ==
  IF j > Len(p) THEN NoQuantifier(j)
  ELSE IF p[j] = 42 THEN Quantifier(0, -1, j + 1)
  ELSE IF p[j] = 43 THEN Quantifier(1, -1, j + 1)
  ELSE IF p[j] = 63 THEN Quantifier(0, 1, j + 1)
  ELSE IF p[j] = 123 THEN braceQuantifier(p, j)
  ELSE NoQuantifier(j)

\* The atom with its quantifier q; a '?' (63) after the quantifier makes it
\* lazy, which changes no test() result.
reQuantified(p, atom, q) ==
  IF ~q.is THEN atom
  ELSE IF q.max # -1 /\ q.max < q.min THEN ReFail(atom.next)
  ELSE ReOk([kind |-> "rep", item |-> atom.node, min |-> q.min, max |-> q.max],
            IF q.next <= Len(p) /\ p[q.next] = 63 THEN q.next + 1 ELSE q.next)

\* One atom with its quantifier, from index i of p; an anchor takes none.
reTerm(p, i) ==
  Let(reAtom(p, i),
      LAMBDA atom : IF ~atom.ok \/ atom.node.kind \in {"bol", "eol"} THEN atom
                    ELSE reQuantified(p, atom, reQuantifier(p, atom.next)))

\* The terms of one alternative, up to '|' (124), ')' (41) or the end of p.
reAlternative(p, i, items) ==
  IF i > Len(p) \/ p[i] \in {124, 41}
  THEN ReOk([kind |-> "seq", items |-> items], i)
  ELSE Let(reTerm(p, i),
           LAMBDA t : IF t.ok
                      THEN reAlternative(p, t.next, Append(items, t.node))
                      ELSE t)

\* The alternative a followed by the alternatives after its '|'.
reAlternatives(a, rest) ==
  IF rest.ok
  THEN ReOk([kind |-> "alt", items |-> <<a.node, rest.node>>], rest.next)
  ELSE rest

\* Alternatives separated by '|' (124), from index i of p.
reDisjunction(p, i) ==
  Let(reAlternative(p, i, <<>>),
      LAMBDA a : IF a.ok /\ a.next <= Len(p) /\ p[a.next] = 124
                 THEN reAlternatives(a, reDisjunction(p, a.next + 1))
                 ELSE a)

\* new RegExp(pattern): the compiled tree, or threw when the pattern is not
\* a regular expression (a SyntaxError is thrown).
RegExp(pattern) ==
  Let(reDisjunction(pattern, 1),
      LAMBDA d : [threw |-> ~(d.ok /\ d.next > Len(pattern)), node |-> d.node])

RECURSIVE reEnds(_, _, _)
RECURSIVE reSeqEnds(_, _, _)
RECURSIVE reRepEnds(_, _, _, _, _)

\* The offsets at which a match of node that starts at offset pos of s ends.
reEnds(node, s, pos) ==
  IF node.kind = "set"
  THEN IF pos < Len(s) /\ ((s[pos + 1] \in node.units) # node.neg)
       THEN {pos + 1} ELSE {}
  ELSE IF node.kind = "bol" THEN (IF pos = 0 THEN {pos} ELSE {})
  ELSE IF node.kind = "eol" THEN (IF pos = Len(s) THEN {pos} ELSE {})
  ELSE IF node.kind = "seq" THEN reSeqEnds(node.items, s, {pos})
  ELSE IF node.kind = "alt"
  THEN reEnds(node.items[1], s, pos) \cup reEnds(node.items[2], s, pos)
  ELSE reRepEnds(node, s, {pos}, {}, 0)

\* The ends of the items matched one after the other from any offset of from.
reSeqEnds(items, s, from) ==
  IF items = <<>> \/ from = {} THEN from
  ELSE reSeqEnds(Tail(items), s, UNION {reEnds(Head(items), s, q) : q \in from})

\* The ends of count or more repetitions, count of them already matched up
\* to the offsets of frontier, next being where one more repetition ends.
reRepMore(node, s, frontier, seen, count, acc, next) ==
  Let(IF count >= node.min THEN next \ (seen \cup frontier) ELSE next,
      LAMBDA fresh :
        IF fresh = {} \/ (node.max # -1 /\ count >= node.max) THEN acc
        ELSE acc \cup reRepEnds(node, s, fresh, seen \cup acc, count + 1))

\* The ends of count or more repetitions, count of them already matched up
\* to the offsets of frontier.
reRepEnds(node, s, frontier, seen, count) ==
  reRepMore(node, s, frontier, seen, count,
            IF count >= node.min THEN frontier ELSE {},
            UNION {reEnds(node.item, s, q) : q \in frontier})

\* RegExp.prototype.test(value) of a regular expression without flags
RegExpTest(re, value) ==
  \E start \in 0..Len(value) : reEnds(re.node, value, start) # {}

----------------------------------------------------------------------------
(* XmlValidator                                                            *)

\* The regular expressions of validateSimpleValue.
IntegerPattern == RegExp(<<94, 45, 63, 92, 100, 43, 36>>)
DecimalPattern == RegExp(<<94, 45, 63, 92, 100, 42, 92, 46, 63, 92, 100, 43, 36>>)
DatePattern == RegExp(<<94, 92, 100, 123, 52, 125, 45, 92, 100, 123, 50, 125, 45, 92, 100, 123, 50, 125, 36>>)
DateTimePattern == RegExp(
  <<94, 92, 100, 123, 52, 125, 45, 92, 100, 123, 50, 125, 45, 92, 100, 123, 50, 125, 84, 92, 100, 123, 50, 125, 58, 92, 100, 123, 50, 125, 58, 92, 100, 123, 50, 125, 40, 92, 46, 92, 100, 43, 41, 63, 40, 90, 124, 91, 43, 45, 93, 92, 100, 123, 50, 125, 58, 92, 100, 123, 50, 125, 41, 63, 36>>)
TimePattern == RegExp(
  <<94, 92, 100, 123, 50, 125, 58, 92, 100, 123, 50, 125, 58, 92, 100, 123, 50, 125, 40, 92, 46, 92, 100, 43, 41, 63, 40, 90, 124, 91, 43, 45, 93, 92, 100, 123, 50, 125, 58, 92, 100, 123, 50, 125, 41, 63, 36>>)

\* The type keywords of validateSimpleValue and isBuiltInType.
\* 'int'
StrInt == <<105, 110, 116>>
\* 'integer'
StrInteger == <<105, 110, 116, 101, 103, 101, 114>>
\* 'decimal'
StrDecimal == <<100, 101, 99, 105, 109, 97, 108>>
\* 'float'
StrFloat == <<102, 108, 111, 97, 116>>
\* 'double'
StrDouble == <<100, 111, 117, 98, 108, 101>>
\* 'boolean'
StrBoolean == <<98, 111, 111, 108, 101, 97, 110>>
\* 'date'
StrDate == <<100, 97, 116, 101>>
\* 'dateTime'
StrDateTime == <<100, 97, 116, 101, 84, 105, 109, 101>>
\* 'time'
StrTime == <<116, 105, 109, 101>>
\* 'base64Binary'
StrBase64Binary == <<98, 97, 115, 101, 54, 52, 66, 105, 110, 97, 114, 121>>
\* 'hexBinary'
StrHexBinary == <<104, 101, 120, 66, 105, 110, 97, 114, 121>>
\* 'true'
StrTrue == <<116, 114, 117, 101>>
\* 'false'
StrFalse == <<102, 97, 108, 115, 101>>

\* The facet kinds of validateRestrictions.
\* 'minLength'
StrMinLength == <<109, 105, 110, 76, 101, 110, 103, 116, 104>>
\* 'maxLength'
StrMaxLength == <<109, 97, 120, 76, 101, 110, 103, 116, 104>>
\* 'pattern'
StrPattern == <<112, 97, 116, 116, 101, 114, 110>>
\* 'minInclusive'
StrMinInclusive ==
  <<109, 105, 110, 73, 110, 99, 108, 117, 115, 105, 118, 101>>
\* 'maxInclusive'
StrMaxInclusive == <<109, 97, 120, 73, 110, 99, 108, 117, 115, 105, 118, 101>>

\* validateSimpleValue(value, type)
validateSimpleValue(value, type) ==
  IF type = StrString THEN TRUE
  ELSE IF type \in {StrInt, StrInteger} THEN RegExpTest(IntegerPattern, value)
  ELSE IF type \in {StrDecimal, StrFloat, StrDouble}
  THEN RegExpTest(DecimalPattern, value)
  ELSE IF type = StrBoolean
  THEN value \in {StrTrue, StrFalse, One, Zero}
  ELSE IF type = StrDate THEN RegExpTest(DatePattern, value)
  ELSE IF type = StrDateTime THEN RegExpTest(DateTimePattern, value)
  ELSE IF type = StrTime THEN RegExpTest(TimePattern, value)
  ELSE TRUE

\* isBuiltInType(type)
isBuiltInType(type) ==
  type \in {StrString, StrInt, StrInteger, StrDecimal, StrFloat, StrDouble,
            StrBoolean, StrDate, StrDateTime, StrTime, StrBase64Binary,
            StrHexBinary}

\* What a validation step leaves: the errors pushed so far, and whether an
\* exception left the step.
Errors(errors) == [threw |-> FALSE, errors |-> errors]
Thrown(errors) == [threw |-> TRUE, errors |-> errors]

\* addError(line, column, message, code) on the list errors
addError(errors, l, c, message, code) ==
  Append(errors, ValidationError(l, c, message, code))

\* Number(restriction.value): the number a facet value was coerced to, or
\* NaN for a value kept as a string.
FacetNumber(value) == [nan |-> ~value.isNumber, val |-> value.number]

\* a < b on Numbers, with <= in the place of <.
NumLessOrEqual(a, b) == ~a.nan /\ ~b.nan /\ a.val <= b.val

\* a < b on Numbers: false when either is NaN
NumLess(a, b) == ~a.nan /\ ~b.nan /\ a.val < b.val

RECURSIVE validateRestrictions(_, _, _, _, _, _)

\* validateRestrictions(): the case 'pattern', regex being what new RegExp
\* made of the facet's value
patternRestriction(errors, value, restrictions, l, c, elementName, regex) ==
  IF regex.threw THEN Thrown(errors)
  ELSE validateRestrictions(
         IF ~RegExpTest(regex, value)
         THEN addError(errors, l, c,
                       Msg("does not match pattern",
                           <<value, elementName,
                             Head(restrictions).value.string>>),
                       "PATTERN_VIOLATION")
         ELSE errors,
         value, Tail(restrictions), l, c, elementName)

\* validateRestrictions(value, restrictions, line, column, elementName)
validateRestrictions(errors, value, restrictions, l, c, elementName) ==
  IF restrictions = <<>> THEN Errors(errors)
  ELSE LET restriction == Head(restrictions)
           length == [nan |-> FALSE, val |-> Len(value)]
           args == <<value, elementName, restriction.value.string>>
       IN IF restriction.type = StrMinLength
          THEN validateRestrictions(
                 IF NumLess(length, FacetNumber(restriction.value))
                 THEN addError(errors, l, c, Msg("is too short", args),
                               "MIN_LENGTH_VIOLATION")
                 ELSE errors,
                 value, Tail(restrictions), l, c, elementName)
          ELSE IF restriction.type = StrMaxLength
          THEN validateRestrictions(
                 IF NumLess(FacetNumber(restriction.value), length)
                 THEN addError(errors, l, c, Msg("is too long", args),
                               "MAX_LENGTH_VIOLATION")
                 ELSE errors,
                 value, Tail(restrictions), l, c, elementName)
          ELSE IF restriction.type = StrPattern
          THEN patternRestriction(errors, value, restrictions, l, c,
                                  elementName,
                                  RegExp(restriction.value.string))
          ELSE IF restriction.type = StrMinInclusive
          THEN validateRestrictions(
                 IF NumLess(ToNumber(value), FacetNumber(restriction.value))
                 THEN addError(errors, l, c, Msg("is below minimum", args),
                               "MIN_INCLUSIVE_VIOLATION")
                 ELSE errors,
                 value, Tail(restrictions), l, c, elementName)
          ELSE IF restriction.type = StrMaxInclusive
          THEN validateRestrictions(
                 IF NumLess(FacetNumber(restriction.value), ToNumber(value))
                 THEN addError(errors, l, c, Msg("is above maximum", args),
                               "MAX_INCLUSIVE_VIOLATION")
                 ELSE errors,
                 value, Tail(restrictions), l, c, elementName)
          ELSE validateRestrictions(errors, value, Tail(restrictions), l, c,
                                    elementName)

\* The children of a node, '#text' children included.
allChildrenOf(xmlNode) == xmlNode.children

\* The children of a node that are not '#text' children.
childElementsOf(xmlNode) ==
  SelectSeq(xmlNode.children, LAMBDA child : child.name # TextName)

\* xmlNode.text || xmlNode.children.find(child => child.name === '#text')?.text || ''
textContentOf(xmlNode) ==
  LET texts == SelectSeq(xmlNode.children, LAMBDA child : child.name = TextName)
  IN OrElse(xmlNode.text,
            OrElse(IF texts = <<>> THEN <<>> ELSE texts[1].text, <<>>))

\* The names of the functions every object inherits from Object.prototype:
\* constructor, __defineGetter__, __defineSetter__, hasOwnProperty,
\* __lookupGetter__, __lookupSetter__, isPrototypeOf, propertyIsEnumerable,
\* toString, valueOf, toLocaleString.
InheritedFunctions ==
  {<<99, 111, 110, 115, 116, 114, 117, 99, 116, 111, 114>>,
   <<95, 95, 100, 101, 102, 105, 110, 101, 71, 101, 116, 116, 101, 114, 95, 95>>,
   <<95, 95, 100, 101, 102, 105, 110, 101, 83, 101, 116, 116, 101, 114, 95, 95>>,
   <<104, 97, 115, 79, 119, 110, 80, 114, 111, 112, 101, 114, 116, 121>>,
   <<95, 95, 108, 111, 111, 107, 117, 112, 71, 101, 116, 116, 101, 114, 95, 95>>,
   <<95, 95, 108, 111, 111, 107, 117, 112, 83, 101, 116, 116, 101, 114, 95, 95>>,
   <<105, 115, 80, 114, 111, 116, 111, 116, 121, 112, 101, 79, 102>>,
   <<112, 114, 111, 112, 101, 114, 116, 121, 73, 115, 69, 110, 117, 109, 101, 114, 97, 98, 108, 101>>,
   <<116, 111, 83, 116, 114, 105, 110, 103>>,
   <<118, 97, 108, 117, 101, 79, 102>>,
   <<116, 111, 76, 111, 99, 97, 108, 101, 83, 116, 114, 105, 110, 103>>}

\* 'constructor', the inherited function whose name is 'Object'
StrConstructor == <<99, 111, 110, 115, 116, 114, 117, 99, 116, 111, 114>>
\* 'Object'
StrObject == <<79, 98, 106, 101, 99, 116>>
\* 'undefined'
StrUndefined == <<117, 110, 100, 101, 102, 105, 110, 101, 100>>

\* record[key] on a Record created as {}: whether the key, no own entry, is
\* found on Object.prototype (the value found is an object, so truthy).
Inherited(key) == key \in InheritedFunctions \cup {StrProto}

RECURSIVE requiredAttributes(_, _, _, _, _)
\* validateAttributes(): the loop over the declared attributes
requiredAttributes(errors, xmlNode, xsdAttrs, l, c) ==
  IF xsdAttrs = <<>> THEN errors
  ELSE requiredAttributes(
         IF /\ Head(xsdAttrs).use = StrRequired
            /\ OrElse(Prop(xmlNode.attributes, Head(xsdAttrs).name), <<>>) = <<>>
            /\ ~(/\ ~HasAttribute(xmlNode.attributes, Head(xsdAttrs).name)
                 /\ Inherited(Head(xsdAttrs).name))
         THEN addError(errors, l, c,
                       Msg("Required attribute is missing",
                           <<Head(xsdAttrs).name>>),
                       "MISSING_REQUIRED_ATTRIBUTE")
         ELSE errors,
         xmlNode, Tail(xsdAttrs), l, c)

RECURSIVE attributeValues(_, _, _, _, _)
\* validateAttributes(): the loop over the node's attributes
attributeValues(errors, entries, complexType, l, c) ==
  IF entries = <<>> THEN errors
  ELSE LET attrName == Head(entries).name
           attrValue == Head(entries).value
           found == SelectSeq(complexType.attributes,
                              LAMBDA a : a.name = attrName)
           xsdAttr == found[1]
           e1 == IF OrElse(xsdAttr.fixedValue, <<>>) # <<>>
                    /\ attrValue # xsdAttr.fixedValue[1]
                 THEN addError(errors, l, c,
                               Msg("Attribute must have value",
                                   <<attrName, xsdAttr.fixedValue[1]>>),
                               "FIXED_VALUE_VIOLATION")
                 ELSE errors
           e2 == IF ~validateSimpleValue(attrValue, xsdAttr.type)
                 THEN addError(e1, l, c,
                               Msg("Invalid value for attribute",
                                   <<attrValue, attrName, xsdAttr.type>>),
                               "INVALID_ATTRIBUTE_VALUE")
                 ELSE e1
       IN attributeValues(
            IF found = <<>>
            THEN addError(errors, l, c,
                          Msg("Attribute is not allowed", <<attrName>>),
                          "UNEXPECTED_ATTRIBUTE")
            ELSE e2,
            Tail(entries), complexType, l, c)

\* validateAttributes(xmlNode, xsdElement, line, column)
validateAttributes(sch, errors, xmlNode, xsdElement, l, c) ==
  LET complexType == GetDef(sch.complexTypes, xsdElement.type)
  IN IF complexType = <<>> THEN errors
     ELSE attributeValues(
            requiredAttributes(errors, xmlNode, complexType[1].attributes, l, c),
            xmlNode.attributes, complexType[1], l, c)

\* validateSimpleContent(), lines 85-94: the text content is checked
simpleContentValue(errors, xmlNode, xsdElement, l, c, textContent) ==
  Let(IF ~validateSimpleValue(textContent, xsdElement.type)
      THEN addError(errors, l, c,
                    Msg("Invalid value for element",
                        <<textContent, xmlNode.name, xsdElement.type>>),
                    "INVALID_ELEMENT_VALUE")
      ELSE errors,
      LAMBDA e1 : IF xsdElement.restrictions # <<>>
                  THEN validateRestrictions(e1, textContent,
                                            xsdElement.restrictions[1],
                                            l, c, xmlNode.name)
                  ELSE Errors(e1))

\* validateSimpleContent(xmlNode, xsdElement, line, column)
validateSimpleContent(errors, xmlNode, xsdElement, l, c) ==
  IF Len(xmlNode.children) > 0 /\ childElementsOf(xmlNode) # <<>>
  THEN Errors(addError(errors, l, c,
                       Msg("should contain simple content", <<xmlNode.name>>),
                       "INVALID_CONTENT"))
  ELSE simpleContentValue(errors, xmlNode, xsdElement, l, c,
                          textContentOf(xmlNode))

\* validateSimpleTypeContent(), lines 100-104: the text content is checked
simpleTypeValue(errors, xmlNode, simpleType, l, c, textContent) ==
  validateRestrictions(
    IF ~validateSimpleValue(textContent, simpleType.baseType)
    THEN addError(errors, l, c,
                  Msg("Invalid value for base type",
                      <<textContent, simpleType.baseType>>),
                  "INVALID_SIMPLE_TYPE_VALUE")
    ELSE errors,
    textContent, simpleType.restrictions, l, c, xmlNode.name)

\* validateSimpleTypeContent(xmlNode, simpleType, line, column)
validateSimpleTypeContent(errors, xmlNode, simpleType, l, c) ==
  simpleTypeValue(errors, xmlNode, simpleType, l, c, textContentOf(xmlNode))

\* validateInlineContent(xmlNode, xsdElement, line, column)
validateInlineContent(errors, xmlNode, xsdElement, l, c) ==
  IF xsdElement.restrictions # <<>>
  THEN validateRestrictions(errors, textContentOf(xmlNode),
                            xsdElement.restrictions[1], l, c, xmlNode.name)
  ELSE Errors(errors)

RECURSIVE unexpectedElements(_, _, _, _, _)
\* validateComplexContent(): the loop looking for unexpected elements
unexpectedElements(errors, childElements, complexType, l, c) ==
  IF childElements = <<>> THEN errors
  ELSE unexpectedElements(
         IF ~\E i \in 1..Len(complexType.elements) :
               complexType.elements[i].name = Head(childElements).name
         THEN addError(errors, l, c,
                       Msg("Unexpected element", <<Head(childElements).name>>),
                       "UNEXPECTED_ELEMENT")
         ELSE errors,
         Tail(childElements), complexType, l, c)

RECURSIVE validateElement(_, _, _, _, _, _)
RECURSIVE validateOccurrences(_, _, _, _, _, _)
RECURSIVE validateParticles(_, _, _, _, _, _)

\* validateComplexContent(): the loop validating each matching child
validateOccurrences(sch, r, matchingChildren, xsdElement, l, c) ==
  IF matchingChildren = <<>> \/ r.threw THEN r
  ELSE validateOccurrences(
         sch,
         validateElement(sch, r.errors, Head(matchingChildren), xsdElement, l, c),
         Tail(matchingChildren), xsdElement, l, c)

\* validateComplexContent(): the loop over the particles of the type
validateParticles(sch, r, childElements, particles, l, c) ==
  IF particles = <<>> \/ r.threw THEN r
  ELSE LET xsdElement == Head(particles)
           matchingChildren ==
             SelectSeq(childElements, LAMBDA child : child.name = xsdElement.name)
           count == [nan |-> FALSE, val |-> Len(matchingChildren)]
           e1 == IF NumLess(count, xsdElement.minOccurs)
                 THEN addError(r.errors, l, c,
                               Msg("occurs fewer times than minimum",
                                   <<xsdElement.name,
                                     NatToString(Len(matchingChildren))>>),
                               "MIN_OCCURS_VIOLATION")
                 ELSE r.errors
           e2 == IF ~xsdElement.maxOccurs.unbounded
                    /\ NumLess(xsdElement.maxOccurs.number, count)
                 THEN addError(e1, l, c,
                               Msg("occurs more times than maximum",
                                   <<xsdElement.name,
                                     NatToString(Len(matchingChildren))>>),
                               "MAX_OCCURS_VIOLATION")
                 ELSE e1
       IN validateParticles(
            sch,
            validateOccurrences(sch, Errors(e2), matchingChildren, xsdElement,
                                l, c),
            childElements, Tail(particles), l, c)

\* validateComplexContent(), lines 112-138: the two loops
complexContentLoops(sch, errors, childElements, complexType, l, c) ==
  Let(validateParticles(sch, Errors(errors), childElements,
                        complexType.elements, l, c),
      LAMBDA r : IF r.threw THEN r
                 ELSE Errors(unexpectedElements(r.errors, childElements,
                                                complexType, l, c)))

\* validateComplexContent(xmlNode, complexType, line, column)
validateComplexContent(sch, errors, xmlNode, complexType, l, c) ==
  complexContentLoops(sch, errors, childElementsOf(xmlNode), complexType, l, c)

\* validateElement(), lines 36-45: the content is validated by its type
validateContent(sch, errors, xmlNode, xsdElement, l, c, complexType, simpleType) ==
  IF isBuiltInType(xsdElement.type)
  THEN validateSimpleContent(errors, xmlNode, xsdElement, l, c)
  ELSE IF complexType # <<>>
  THEN validateComplexContent(sch, errors, xmlNode, complexType[1], l, c)
  ELSE IF simpleType # <<>>
  THEN validateSimpleTypeContent(errors, xmlNode, simpleType[1], l, c)
  ELSE IF StartsWith(xsdElement.type, StrInline)
  THEN validateInlineContent(errors, xmlNode, xsdElement, l, c)
  ELSE Errors(errors)

\* validateElement(xmlNode, xsdElement, line, column)
validateElement(sch, errors, xmlNode, xsdElement, l, c) ==
  IF xmlNode.name # xsdElement.name
  THEN Errors(addError(errors, l, c,
                       Msg("Expected element but found",
                           <<xsdElement.name, xmlNode.name>>),
                       "ELEMENT_MISMATCH"))
  ELSE validateContent(sch,
                       validateAttributes(sch, errors, xmlNode, xsdElement,
                                          l, c),
                       xmlNode, xsdElement, l, c,
                       GetDef(sch.complexTypes, xsdElement.type),
                       GetDef(sch.simpleTypes, xsdElement.type))

\* String(value.name) of that inherited value: a function has its name,
\* Object.prototype has none.
inheritedName(key) ==
  IF key = StrConstructor THEN StrObject
  ELSE IF key = StrProto THEN StrUndefined
  ELSE key

\* validateElement(xmlNode, xsdElement, line, column), xsdElement being the
\* value this.schema.elements[xmlNode.name] inherited from Object.prototype:
\* it has no type, complexTypes[undefined] and simpleTypes[undefined] are
\* the entries with the key 'undefined', and undefined.startsWith throws a
\* TypeError.
validateInherited(sch, errors, xmlNode, l, c) ==
  IF inheritedName(xmlNode.name) # xmlNode.name
  THEN Errors(addError(errors, l, c,
                       Msg("Expected element but found",
                           <<inheritedName(xmlNode.name), xmlNode.name>>),
                       "ELEMENT_MISMATCH"))
  ELSE IF /\ GetDef(sch.complexTypes, StrUndefined) = <<>>
          /\ GetDef(sch.simpleTypes, StrUndefined) = <<>>
  THEN Thrown(errors)
  ELSE validateContent(sch,
                       validateAttributes(sch, errors, xmlNode,
                                          [type |-> StrUndefined], l, c),
                       xmlNode, [type |-> StrUndefined], l, c,
                       GetDef(sch.complexTypes, StrUndefined),
                       GetDef(sch.simpleTypes, StrUndefined))

\* this.errors = [], line 12, with the assignment left out: this.errors
\* goes on referring to the array it referred to.
keepErrors(heap, ref) == [arrays |-> heap, ref |-> ref]

\* this.errors = [], line 12, in a validator whose this.errors refers to
\* the array ref of the heap: a new, empty array is made and referred to.
resetErrors(heap, ref) == [arrays |-> Append(heap, <<>>), ref |-> Len(heap) + 1]

\* validate(xmlNode), lines 14-22, of a validator for schema sch, errors
\* being the list this.errors holds after line 12: the list it holds when
\* the call ends, and whether the call ended by an exception.
validate(sch, errors, xmlNode) ==
  LET rootElement == GetDef(sch.elements, xmlNode.name)
  IN IF rootElement # <<>>
     THEN validateElement(sch, errors, xmlNode, rootElement[1], 1, 1)
     ELSE IF Inherited(xmlNode.name)
     THEN validateInherited(sch, errors, xmlNode, 1, 1)
     ELSE Errors(addError(errors, 1, 1,
                          Msg("Root element not found in schema",
                              <<xmlNode.name>>),
                          "ELEMENT_NOT_FOUND"))

----------------------------------------------------------------------------
(* The documents of src/test.ts                                            *)

\* const sampleXsdSchema
sampleXsdSchema ==
  S(<<"<", "?", "x", "m", "l", " ", "v", "e", "r", "s", "i", "o", "n", "=",
      "\"", "1", ".", "0", "\"", " ", "e", "n", "c", "o", "d", "i", "n", "g",
      "=", "\"", "U", "T", "F", "-", "8", "\"", "?", ">", "\n", "<", "x",
      "s", ":", "s", "c", "h", "e", "m", "a", " ", "x", "m", "l", "n", "s",
      ":", "x", "s", "=", "\"", "h", "t", "t", "p", ":", "/", "/", "w", "w",
      "w", ".", "w", "3", ".", "o", "r", "g", "/", "2", "0", "0", "1", "/",
      "X", "M", "L", "S", "c", "h", "e", "m", "a", "\"", "\n", " ", " ", " ",
      " ", " ", " ", " ", " ", " ", " ", " ", "t", "a", "r", "g", "e", "t",
      "N", "a", "m", "e", "s", "p", "a", "c", "e", "=", "\"", "h", "t", "t",
      "p", ":", "/", "/", "e", "x", "a", "m", "p", "l", "e", ".", "c", "o",
      "m", "/", "b", "o", "o", "k", "\"", "\n", " ", " ", " ", " ", " ", " ",
      " ", " ", " ", " ", " ", "x", "m", "l", "n", "s", ":", "t", "n", "s",
      "=", "\"", "h", "t", "t", "p", ":", "/", "/", "e", "x", "a", "m", "p",
      "l", "e", ".", "c", "o", "m", "/", "b", "o", "o", "k", "\"", "\n", " ",
      " ", " ", " ", " ", " ", " ", " ", " ", " ", " ", "e", "l", "e", "m",
      "e", "n", "t", "F", "o", "r", "m", "D", "e", "f", "a", "u", "l", "t",
      "=", "\"", "q", "u", "a", "l", "i", "f", "i", "e", "d", "\"", ">",
      "\n", "\n", " ", " ", "<", "x", "s", ":", "e", "l", "e", "m", "e", "n",
      "t", " ", "n", "a", "m", "e", "=", "\"", "l", "i", "b", "r", "a", "r",
      "y", "\"", ">", "\n", " ", " ", " ", " ", "<", "x", "s", ":", "c", "o",
      "m", "p", "l", "e", "x", "T", "y", "p", "e", ">", "\n", " ", " ", " ",
      " ", " ", " ", "<", "x", "s", ":", "s", "e", "q", "u", "e", "n", "c",
      "e", ">", "\n", " ", " ", " ", " ", " ", " ", " ", " ", "<", "x", "s",
      ":", "e", "l", "e", "m", "e", "n", "t", " ", "n", "a", "m", "e", "=",
      "\"", "b", "o", "o", "k", "\"", " ", "t", "y", "p", "e", "=", "\"",
      "t", "n", "s", ":", "B", "o", "o", "k", "T", "y", "p", "e", "\"", " ",
      "m", "i", "n", "O", "c", "c", "u", "r", "s", "=", "\"", "1", "\"", " ",
      "m", "a", "x", "O", "c", "c", "u", "r", "s", "=", "\"", "u", "n", "b",
      "o", "u", "n", "d", "e", "d", "\"", "/", ">", "\n", " ", " ", " ", " ",
      " ", " ", "<", "/", "x", "s", ":", "s", "e", "q", "u", "e", "n", "c",
      "e", ">", "\n", " ", " ", " ", " ", "<", "/", "x", "s", ":", "c", "o",
      "m", "p", "l", "e", "x", "T", "y", "p", "e", ">", "\n", " ", " ", "<",
      "/", "x", "s", ":", "e", "l", "e", "m", "e", "n", "t", ">", "\n", "\n",
      " ", " ", "<", "x", "s", ":", "c", "o", "m", "p", "l", "e", "x", "T",
      "y", "p", "e", " ", "n", "a", "m", "e", "=", "\"", "B", "o", "o", "k",
      "T", "y", "p", "e", "\"", ">", "\n", " ", " ", " ", " ", "<", "x", "s",
      ":", "s", "e", "q", "u", "e", "n", "c", "e", ">", "\n", " ", " ", " ",
      " ", " ", " ", "<", "x", "s", ":", "e", "l", "e", "m", "e", "n", "t",
      " ", "n", "a", "m", "e", "=", "\"", "t", "i", "t", "l", "e", "\"", " ",
      "t", "y", "p", "e", "=", "\"", "x", "s", ":", "s", "t", "r", "i", "n",
      "g", "\"", "/", ">", "\n", " ", " ", " ", " ", " ", " ", "<", "x", "s",
      ":", "e", "l", "e", "m", "e", "n", "t", " ", "n", "a", "m", "e", "=",
      "\"", "a", "u", "t", "h", "o", "r", "\"", " ", "t", "y", "p", "e", "=",
      "\"", "x", "s", ":", "s", "t", "r", "i", "n", "g", "\"", "/", ">",
      "\n", " ", " ", " ", " ", " ", " ", "<", "x", "s", ":", "e", "l", "e",
      "m", "e", "n", "t", " ", "n", "a", "m", "e", "=", "\"", "i", "s", "b",
      "n", "\"", " ", "t", "y", "p", "e", "=", "\"", "t", "n", "s", ":", "I",
      "S", "B", "N", "T", "y", "p", "e", "\"", "/", ">", "\n", " ", " ", " ",
      " ", " ", " ", "<", "x", "s", ":", "e", "l", "e", "m", "e", "n", "t",
      " ", "n", "a", "m", "e", "=", "\"", "p", "r", "i", "c", "e", "\"", " ",
      "t", "y", "p", "e", "=", "\"", "x", "s", ":", "d", "e", "c", "i", "m",
      "a", "l", "\"", "/", ">", "\n", " ", " ", " ", " ", " ", " ", "<", "x",
      "s", ":", "e", "l", "e", "m", "e", "n", "t", " ", "n", "a", "m", "e",
      "=", "\"", "p", "u", "b", "l", "i", "s", "h", "D", "a", "t", "e", "\"",
      " ", "t", "y", "p", "e", "=", "\"", "x", "s", ":", "d", "a", "t", "e",
      "\"", "/", ">", "\n", " ", " ", " ", " ", "<", "/", "x", "s", ":", "s",
      "e", "q", "u", "e", "n", "c", "e", ">", "\n", " ", " ", " ", " ", "<",
      "x", "s", ":", "a", "t", "t", "r", "i", "b", "u", "t", "e", " ", "n",
      "a", "m", "e", "=", "\"", "i", "d", "\"", " ", "t", "y", "p", "e", "=",
      "\"", "x", "s", ":", "s", "t", "r", "i", "n", "g", "\"", " ", "u", "s",
      "e", "=", "\"", "r", "e", "q", "u", "i", "r", "e", "d", "\"", "/", ">",
      "\n", " ", " ", "<", "/", "x", "s", ":", "c", "o", "m", "p", "l", "e",
      "x", "T", "y", "p", "e", ">", "\n", "\n", " ", " ", "<", "x", "s", ":",
      "s", "i", "m", "p", "l", "e", "T", "y", "p", "e", " ", "n", "a", "m",
      "e", "=", "\"", "I", "S", "B", "N", "T", "y", "p", "e", "\"", ">",
      "\n", " ", " ", " ", " ", "<", "x", "s", ":", "r", "e", "s", "t", "r",
      "i", "c", "t", "i", "o", "n", " ", "b", "a", "s", "e", "=", "\"", "x",
      "s", ":", "s", "t", "r", "i", "n", "g", "\"", ">", "\n", " ", " ", " ",
      " ", " ", " ", "<", "x", "s", ":", "p", "a", "t", "t", "e", "r", "n",
      " ", "v", "a", "l", "u", "e", "=", "\"", "[", "0", "-", "9", "]", "{",
      "3", "}", "-", "[", "0", "-", "9", "]", "{", "1", "0", "}", "\"", "/",
      ">", "\n", " ", " ", " ", " ", "<", "/", "x", "s", ":", "r", "e", "s",
      "t", "r", "i", "c", "t", "i", "o", "n", ">", "\n", " ", " ", "<", "/",
      "x", "s", ":", "s", "i", "m", "p", "l", "e", "T", "y", "p", "e", ">",
      "\n", "\n", "<", "/", "x", "s", ":", "s", "c", "h", "e", "m", "a",
      ">">>)

\* const validXml
validXml ==
  S(<<"<", "?", "x", "m", "l", " ", "v", "e", "r", "s", "i", "o", "n", "=",
      "\"", "1", ".", "0", "\"", " ", "e", "n", "c", "o", "d", "i", "n", "g",
      "=", "\"", "U", "T", "F", "-", "8", "\"", "?", ">", "\n", "<", "l",
      "i", "b", "r", "a", "r", "y", " ", "x", "m", "l", "n", "s", "=", "\"",
      "h", "t", "t", "p", ":", "/", "/", "e", "x", "a", "m", "p", "l", "e",
      ".", "c", "o", "m", "/", "b", "o", "o", "k", "\"", ">", "\n", " ", " ",
      "<", "b", "o", "o", "k", " ", "i", "d", "=", "\"", "b", "0", "0", "1",
      "\"", ">", "\n", " ", " ", " ", " ", "<", "t", "i", "t", "l", "e", ">",
      "T", "h", "e", " ", "G", "r", "e", "a", "t", " ", "G", "a", "t", "s",
      "b", "y", "<", "/", "t", "i", "t", "l", "e", ">", "\n", " ", " ", " ",
      " ", "<", "a", "u", "t", "h", "o", "r", ">", "F", ".", " ", "S", "c",
      "o", "t", "t", " ", "F", "i", "t", "z", "g", "e", "r", "a", "l", "d",
      "<", "/", "a", "u", "t", "h", "o", "r", ">", "\n", " ", " ", " ", " ",
      "<", "i", "s", "b", "n", ">", "9", "7", "8", "-", "0", "1", "4", "2",
      "4", "3", "7", "1", "7", "1", "<", "/", "i", "s", "b", "n", ">", "\n",
      " ", " ", " ", " ", "<", "p", "r", "i", "c", "e", ">", "1", "2", ".",
      "9", "9", "<", "/", "p", "r", "i", "c", "e", ">", "\n", " ", " ", " ",
      " ", "<", "p", "u", "b", "l", "i", "s", "h", "D", "a", "t", "e", ">",
      "2", "0", "0", "4", "-", "0", "9", "-", "3", "0", "<", "/", "p", "u",
      "b", "l", "i", "s", "h", "D", "a", "t", "e", ">", "\n", " ", " ", "<",
      "/", "b", "o", "o", "k", ">", "\n", " ", " ", "<", "b", "o", "o", "k",
      " ", "i", "d", "=", "\"", "b", "0", "0", "2", "\"", ">", "\n", " ",
      " ", " ", " ", "<", "t", "i", "t", "l", "e", ">", "T", "o", " ", "K",
      "i", "l", "l", " ", "a", " ", "M", "o", "c", "k", "i", "n", "g", "b",
      "i", "r", "d", "<", "/", "t", "i", "t", "l", "e", ">", "\n", " ", " ",
      " ", " ", "<", "a", "u", "t", "h", "o", "r", ">", "H", "a", "r", "p",
      "e", "r", " ", "L", "e", "e", "<", "/", "a", "u", "t", "h", "o", "r",
      ">", "\n", " ", " ", " ", " ", "<", "i", "s", "b", "n", ">", "9", "7",
      "8", "-", "0", "0", "6", "1", "1", "2", "0", "0", "8", "4", "<", "/",
      "i", "s", "b", "n", ">", "\n", " ", " ", " ", " ", "<", "p", "r", "i",
      "c", "e", ">", "1", "4", ".", "9", "9", "<", "/", "p", "r", "i", "c",
      "e", ">", "\n", " ", " ", " ", " ", "<", "p", "u", "b", "l", "i", "s",
      "h", "D", "a", "t", "e", ">", "2", "0", "0", "6", "-", "0", "5", "-",
      "2", "3", "<", "/", "p", "u", "b", "l", "i", "s", "h", "D", "a", "t",
      "e", ">", "\n", " ", " ", "<", "/", "b", "o", "o", "k", ">", "\n", "<",
      "/", "l", "i", "b", "r", "a", "r", "y", ">">>)

\* const invalidXml
invalidXml ==
  S(<<"<", "?", "x", "m", "l", " ", "v", "e", "r", "s", "i", "o", "n", "=",
      "\"", "1", ".", "0", "\"", " ", "e", "n", "c", "o", "d", "i", "n", "g",
      "=", "\"", "U", "T", "F", "-", "8", "\"", "?", ">", "\n", "<", "l",
      "i", "b", "r", "a", "r", "y", " ", "x", "m", "l", "n", "s", "=", "\"",
      "h", "t", "t", "p", ":", "/", "/", "e", "x", "a", "m", "p", "l", "e",
      ".", "c", "o", "m", "/", "b", "o", "o", "k", "\"", ">", "\n", " ", " ",
      "<", "b", "o", "o", "k", ">", "\n", " ", " ", " ", " ", "<", "t", "i",
      "t", "l", "e", ">", "I", "n", "v", "a", "l", "i", "d", " ", "B", "o",
      "o", "k", "<", "/", "t", "i", "t", "l", "e", ">", "\n", " ", " ", " ",
      " ", "<", "a", "u", "t", "h", "o", "r", ">", "U", "n", "k", "n", "o",
      "w", "n", " ", "A", "u", "t", "h", "o", "r", "<", "/", "a", "u", "t",
      "h", "o", "r", ">", "\n", " ", " ", " ", " ", "<", "i", "s", "b", "n",
      ">", "i", "n", "v", "a", "l", "i", "d", "-", "i", "s", "b", "n", "<",
      "/", "i", "s", "b", "n", ">", "\n", " ", " ", " ", " ", "<", "p", "r",
      "i", "c", "e", ">", "n", "o", "t", "-", "a", "-", "n", "u", "m", "b",
      "e", "r", "<", "/", "p", "r", "i", "c", "e", ">", "\n", " ", " ", " ",
      " ", "<", "p", "u", "b", "l", "i", "s", "h", "D", "a", "t", "e", ">",
      "i", "n", "v", "a", "l", "i", "d", "-", "d", "a", "t", "e", "<", "/",
      "p", "u", "b", "l", "i", "s", "h", "D", "a", "t", "e", ">", "\n", " ",
      " ", "<", "/", "b", "o", "o", "k", ">", "\n", "<", "/", "l", "i", "b",
      "r", "a", "r", "y", ">">>)

\* const simpleXml
simpleXml ==
  S(<<"<", "?", "x", "m", "l", " ", "v", "e", "r", "s", "i", "o", "n", "=",
      "\"", "1", ".", "0", "\"", " ", "e", "n", "c", "o", "d", "i", "n", "g",
      "=", "\"", "U", "T", "F", "-", "8", "\"", "?", ">", "\n", "<", "p",
      "e", "r", "s", "o", "n", ">", "\n", " ", " ", "<", "n", "a", "m", "e",
      " ", "f", "i", "r", "s", "t", "=", "\"", "J", "o", "h", "n", "\"", " ",
      "l", "a", "s", "t", "=", "\"", "D", "o", "e", "\"", ">", "J", "o", "h",
      "n", " ", "D", "o", "e", "<", "/", "n", "a", "m", "e", ">", "\n", " ",
      " ", "<", "a", "g", "e", ">", "3", "0", "<", "/", "a", "g", "e", ">",
      "\n", " ", " ", "<", "c", "i", "t", "y", ">", "N", "e", "w", " ", "Y",
      "o", "r", "k", "<", "/", "c", "i", "t", "y", ">", "\n", " ", " ", "<",
      "h", "o", "b", "b", "i", "e", "s", ">", "\n", " ", " ", " ", " ", "<",
      "h", "o", "b", "b", "y", ">", "R", "e", "a", "d", "i", "n", "g", "<",
      "/", "h", "o", "b", "b", "y", ">", "\n", " ", " ", " ", " ", "<", "h",
      "o", "b", "b", "y", ">", "S", "w", "i", "m", "m", "i", "n", "g", "<",
      "/", "h", "o", "b", "b", "y", ">", "\n", " ", " ", " ", " ", "<", "h",
      "o", "b", "b", "y", ">", "C", "o", "o", "k", "i", "n", "g", "<", "/",
      "h", "o", "b", "b", "y", ">", "\n", " ", " ", "<", "/", "h", "o", "b",
      "b", "i", "e", "s", ">", "\n", "<", "/", "p", "e", "r", "s", "o", "n",
      ">">>)

\* Test 7: const malformedXml
malformedXml ==
  S(<<"<", "u", "n", "c", "l", "o", "s", "e", "d", ">", "<", "t", "a", "g",
      ">", "c", "o", "n", "t", "e", "n", "t", "<", "/", "u", "n", "c", "l",
      "o", "s", "e", "d", ">">>)

----------------------------------------------------------------------------
(* XmlHelper.  Its own XmlParser and the one of its XsdParser are kept in  *)
(* the same fields: parse() resets every field it reads before reading it. *)
(* The JSON value xmlToJson computes is not part of the state.             *)

\* What an XmlHelper method handed to its caller: the diagnostics list, for
\* parseXml the tree, for xmlToJson the success flag; threw when the call
\* ended by an exception instead.
Returned(method, node, errors, success) ==
  [op |-> method, threw |-> FALSE, node |-> node, errors |-> errors,
   success |-> success]

Escaped(method) ==
  [op |-> method, threw |-> TRUE, node |-> <<>>, errors |-> <<>>,
   success |-> FALSE]

NoOut == Returned("none", <<>>, <<>>, FALSE)

\* The client makes its next call, of this method: the call's parse() starts.
Call(method) ==
  /\ pc = "idle"
  /\ script # <<>>
  /\ Head(script).op = method
  /\ op' = method
  /\ script' = Tail(script)

\* What the log keeps of a finished call: the method, the text it parsed
\* and what parse made of it, the schema of the validator then in place,
\* the list handed to the caller, and which array of the validator that
\* list is (0: none of them).
Logged(method, errors, ref) ==
  [op |-> method, arg |-> xml, parsed |-> result, schema |-> validator,
   returned |-> errors, ref |-> ref]

\* The running method hands value to its caller: its diagnostics list is
\* the array ref of the validator, or a list of its own (ref = 0).
Return(value, ref) ==
  /\ out' = value
  /\ log' = Append(log, Logged(op, value.errors, ref))
  /\ op' = "none"
  /\ pc' = "idle"
  /\ UNCHANGED <<xml, position, line, column, frames, thrown, result, script>>

\* parseXml(xmlContent), line 515: the call of parse
CallParseXml ==
  /\ Call("parseXml")
  /\ ParseBegin(Head(script).arg)
  /\ UNCHANGED <<schema, validator, validatorErrors, arrays, log, out>>

\* parseXml(xmlContent), line 515: parse's result is returned
ReturnParseXml ==
  /\ pc = "return"
  /\ op = "parseXml"
  /\ Return(Returned("parseXml", result.node, result.errors,
                     result.errors = <<>>),
            0)
  /\ UNCHANGED <<schema, validator, validatorErrors, arrays>>

\* xmlToJson(xmlContent), line 469: the call of parse
CallXmlToJson ==
  /\ Call("xmlToJson")
  /\ ParseBegin(Head(script).arg)
  /\ UNCHANGED <<schema, validator, validatorErrors, arrays, log, out>>

\* xmlToJson(xmlContent), lines 471-494
ReturnXmlToJson ==
  /\ pc = "return"
  /\ op = "xmlToJson"
  /\ Return(IF Len(result.errors) > 0 \/ result.node = <<>>
            THEN Returned("xmlToJson", <<>>, result.errors, FALSE)
            ELSE Returned("xmlToJson", <<>>, <<>>, TRUE),
            0)
  /\ UNCHANGED <<schema, validator, validatorErrors, arrays>>

\* loadSchema(xsdContent), line 418: parseSchema's call of parse
CallLoadSchema ==
  /\ Call("loadSchema")
  /\ ParseBegin(Head(script).arg)
  /\ UNCHANGED <<schema, validator, validatorErrors, arrays, log, out>>

\* loadSchema as it would be if a failing call unloaded the schema.
ReturnLoadSchemaUnloading ==
  /\ pc = "return"
  /\ op = "loadSchema"
  /\ \E r \in {parseSchema(result)} :
       /\ IF r.schema # <<>> /\ Len(r.errors) = 0
          THEN /\ schema' = r.schema
               /\ validator' = r.schema
               /\ arrays' = Append(arrays, <<>>)
               /\ validatorErrors' = Len(arrays) + 1
          ELSE /\ schema' = <<>>
               /\ validator' = <<>>
               /\ UNCHANGED <<validatorErrors, arrays>>
       /\ Return(Returned("loadSchema", <<>>, r.errors, Len(r.errors) = 0), 0)

\* loadSchema(xsdContent), lines 418-425, with the rest of parseSchema.
\* The new XmlValidator starts with an array of its own (part_003 line 5).
ReturnLoadSchema ==
  /\ pc = "return"
  /\ op = "loadSchema"
  /\ \E r \in {parseSchema(result)} :
       /\ IF r.schema # <<>> /\ Len(r.errors) = 0
          THEN /\ schema' = r.schema
               /\ validator' = r.schema
               /\ arrays' = Append(arrays, <<>>)
               /\ validatorErrors' = Len(arrays) + 1
          ELSE UNCHANGED <<schema, validator, validatorErrors, arrays>>
       /\ Return(Returned("loadSchema", <<>>, r.errors, Len(r.errors) = 0), 0)

\* validateXml as it would be if the document were parsed before the schema
\* is looked at.
ValidateXmlParsedFirst ==
  /\ pc = "idle"
  /\ script # <<>>
  /\ Head(script).op = "validateXml"
  /\ schema = <<>> \/ validator = <<>>
  /\ script' = Tail(script)
  /\ xml' = Head(script).arg
  /\ out' = Returned("validateXml", <<>>,
                     <<ValidationError(1, 1, Msg("No schema loaded", <<>>),
                                       "NO_SCHEMA")>>,
                     FALSE)
  /\ UNCHANGED <<position, line, column, pc, frames, thrown, result,
                 op, schema, validator, validatorErrors, arrays, log>>

\* validateXml(xmlContent), lines 434-441: no schema is loaded
ValidateXmlNoSchema ==
  /\ pc = "idle"
  /\ script # <<>>
  /\ Head(script).op = "validateXml"
  /\ schema = <<>> \/ validator = <<>>
  /\ script' = Tail(script)
  /\ out' = Returned("validateXml", <<>>,
                     <<ValidationError(1, 1, Msg("No schema loaded", <<>>),
                                       "NO_SCHEMA")>>,
                     FALSE)
  /\ UNCHANGED <<xml, position, line, column, pc, frames, thrown, result,
                 op, schema, validator, validatorErrors, arrays, log>>

\* validateXml(xmlContent), line 443: the call of parse
CallValidateXml ==
  /\ Call("validateXml")
  /\ ~(schema = <<>> \/ validator = <<>>)
  /\ ParseBegin(Head(script).arg)
  /\ UNCHANGED <<schema, validator, validatorErrors, arrays, log, out>>

\* validateXml(xmlContent), lines 445-459
ReturnValidateXml ==
  /\ pc = "return"
  /\ op = "validateXml"
  /\ IF Len(result.errors) > 0
     THEN /\ Return(Returned("validateXml", <<>>, result.errors, FALSE), 0)
          /\ UNCHANGED <<validatorErrors, arrays>>
     ELSE IF result.node = <<>>
     THEN /\ Return(Returned("validateXml", <<>>,
                             <<ValidationError(1, 1,
                                               Msg("Failed to parse XML", <<>>),
                                               "PARSE_FAILED")>>,
                             FALSE),
                    0)
          /\ UNCHANGED <<validatorErrors, arrays>>
     ELSE \E h \in {resetErrors(arrays, validatorErrors)} :
            \E v \in {validate(validator[1], h.arrays[h.ref], result.node[1])} :
              /\ arrays' = [h.arrays EXCEPT ![h.ref] = v.errors]
              /\ validatorErrors' = h.ref
              /\ Return(IF v.threw THEN Escaped("validateXml")
                        ELSE Returned("validateXml", <<>>, v.errors,
                                      v.errors = <<>>),
                        IF v.threw THEN 0 ELSE h.ref)
  /\ UNCHANGED <<schema, validator>>

\* getSchema(), lines 522-524
getSchema == schema

\* hasSchema(), lines 530-532
hasSchema == schema # <<>>

----------------------------------------------------------------------------
(* The calls a client makes                                                *)

\* The longest document built from tokens, and the longest run of calls on
\* one XmlHelper.
MaxTokens == 4
MaxCalls == 2

\* The longest run of validateXml calls that follows one loadSchema call in
\* a suite.
MaxValidations == 3

\* The elements of a sequence.
Range(seq) == {seq[i] : i \in 1..Len(seq)}

\* The pieces documents are built from: start tag, end tag, empty element,
\* stray end tag, text, white space with a newline, processing instruction,
\* comment.
TokenText ==
  <<S(<<"<", "a", ">">>),
    S(<<"<", "/", "a", ">">>),
    S(<<"<", "b", "/", ">">>),
    S(<<"<", "/", "b", ">">>),
    S(<<"x">>),
    S(<<"\n", " ">>),
    S(<<"<", "?", "p", "?", ">">>),
    S(<<"<", "!", "-", "-", "c", "-", "-", ">">>)>>

\* Every run of at most n tokens, and the document each run spells.
TokenRuns(n) == UNION {[1..k -> 1..Len(TokenText)] : k \in 0..n}
Spell(run) == Concat([i \in 1..Len(run) |-> TokenText[run[i]]])
TokenDocs == {Spell(run) : run \in TokenRuns(MaxTokens)}

RECURSIVE WellFormedRun(_, _, _)
\* Whether a run of tokens is a well-formed document (XML 1.0, production
\* [1]): misc* element misc*, the element's tags matched; depth counts the
\* open elements and rooted tells whether the root element has started.
WellFormedRun(run, depth, rooted) ==
  IF run = <<>> THEN depth = 0 /\ rooted
  ELSE LET t == TokenText[Head(run)]
       IN IF t = TokenText[1]
          THEN (depth > 0 \/ ~rooted) /\ WellFormedRun(Tail(run), depth + 1, TRUE)
          ELSE IF t = TokenText[2]
          THEN depth > 0 /\ WellFormedRun(Tail(run), depth - 1, rooted)
          ELSE IF t = TokenText[3]
          THEN (depth > 0 \/ ~rooted) /\ WellFormedRun(Tail(run), depth, TRUE)
          ELSE IF t = TokenText[4] THEN FALSE
          ELSE IF t = TokenText[5]
          THEN depth > 0 /\ WellFormedRun(Tail(run), depth, rooted)
          ELSE WellFormedRun(Tail(run), depth, rooted)

\* Well-formed documents with attributes.
AttributeDocs ==
  <<S(<<"<", "a", " ", "b", "=", "\"", "x", "\"", "/", ">">>),
    S(<<"<", "a", " ", "b", "=", "'", "x", "'", " ", "c", "=", "\"", "y", "\"",
        "/", ">">>),
    S(<<"<", "a", " ", "b", "=", "\"", "x", "\"", " ", "b", "=", "\"", "y", "\"",
        "/", ">">>),
    S(<<"<", "a", " ", "b", " ", "=", " ", "\"", "x", "\"", ">", "\n", "<", "/",
        "a", ">">>),
    S(<<"<", "a", " ", "b", "=", "\"", "x", "\n", "y", "\"", ">", "<", "b", " ",
        "c", "=", "\"", "\"", "/", ">", "<", "/", "a", ">">>),
    S(<<"<", "a", ":", "b", " ", "c", ".", "d", "-", "e", "=", "\"", "1", "\"",
        "/", ">">>)>>

\* The well-formed documents among the inputs.
WellFormedDocs ==
  {Spell(run) : run \in {r \in TokenRuns(MaxTokens) : WellFormedRun(r, 0, FALSE)}}
    \cup Range(AttributeDocs)
    \cup {validXml, invalidXml, simpleXml, sampleXsdSchema}

\* One structural violation each: an unexpected end tag, an end tag whose
\* name differs from its start tag, an attribute name not followed by '=', an
\* unterminated quoted attribute value, an invalid name-start character, an
\* unterminated entity reference in an attribute value.
Violations ==
  <<S(<<"<", "/", "b", ">">>),
    S(<<"<", "a", ">", "<", "/", "b", ">">>),
    S(<<"<", "a", " ", "b", ">">>),
    S(<<"<", "a", " ", "b", "=", "\"", "x", ">">>),
    S(<<"<", "1", "/", ">">>),
    S(<<"<", "a", " ", "b", "=", "\"", "&", "a", "m", "p", "\"", ">">>)>>
\* What may stand before a violation: nothing, white space, a processing
\* instruction, an open element, text in an open element, a complete element.
Contexts ==
  <<S(<<>>),
    S(<<"\n", " ">>),
    S(<<"<", "?", "p", "?", ">">>),
    S(<<"<", "r", ">">>),
    S(<<"<", "r", ">", "x">>),
    S(<<"<", "b", "/", ">">>)>>
\* What may stand after a violation.
Followers ==
  <<S(<<>>),
    S(<<"<", "/", "r", ">">>),
    S(<<" ", "c", "=", "\"", "y", ";", "\"", "/", ">">>)>>

\* Documents holding a structural violation.
ViolationDocs ==
  {c \o v \o f : c \in Range(Contexts), v \in Range(Violations),
                 f \in Range(Followers)}
    \cup {malformedXml}

\* What may stand between the XML declaration and the root element.
PrologItems ==
  <<S(<<"\n", " ">>),
    S(<<"<", "?", "p", "?", ">">>),
    S(<<"<", "!", "-", "-", "c", "-", "-", ">">>),
    S(<<"<", "!", "D", "O", "C", "T", "Y", "P", "E", " ", "a", ">">>),
    S(<<"<", "!", "D", "O", "C", "T", "Y", "P", "E", " ", "a", " ", "[", "<",
        "!", "E", "L", "E", "M", "E", "N", "T", " ", "a", " ", "A", "N", "Y",
        ">", "]", ">">>)>>
\* The optional white space and XML declaration opening a document.
Declarations ==
  <<S(<<>>),
    S(<<"<", "?", "x", "m", "l", " ", "v", "e", "r", "s", "i", "o", "n", "=",
        "\"", "1", ".", "0", "\"", "?", ">">>),
    S(<<" ", "<", "?", "x", "m", "l", " ", "v", "e", "r", "s", "i", "o", "n",
        "=", "\"", "1", ".", "0", "\"", "?", ">", "\n">>)>>

\* Well-formed root elements and the tree of each.
PrologRoots ==
  {[text |-> S(<<"<", "a", "/", ">">>),
    tree |-> XmlNode(Ch("a"), <<>>, <<>>, <<>>)],
   [text |-> S(<<"<", "a", ">", "x", "<", "/", "a", ">">>),
    tree |-> XmlNode(Ch("a"), <<>>, <<>>, <<Ch("x")>>)]}

\* The runs of at most two prolog items.
PrologRuns == UNION {[1..k -> Range(PrologItems)] : k \in 0..2}

\* A document with a prolog, and the tree of its root element.
PrologCases ==
  {[text |-> d \o Concat(run) \o root.text, tree |-> root.tree] :
     d \in Range(Declarations), run \in PrologRuns, root \in PrologRoots}

PrologDocs == {case.text : case \in PrologCases}

\* The tree of the root element of a document with a prolog.
PrologTree(text) == (CHOOSE case \in PrologCases : case.text = text).tree

RECURSIVE NatToHex(_)
\* The hexadecimal digits of a natural number.
NatToHex(n) ==
  LET digit == IF n % 16 < 10 THEN Ord["0"] + (n % 16)
               ELSE Ord["A"] + ((n % 16) - 10)
  IN IF n < 16 THEN <<digit>> ELSE Append(NatToHex(n \div 16), digit)

\* The UTF-16 string holding the one character with code point code.
FromCodePoint(code) ==
  IF code < 65536 THEN <<code>>
  ELSE <<55296 + ((code - 65536) \div 1024), 56320 + ((code - 65536) % 1024)>>

\* Code points referred to by numeric references: in and beyond the Basic
\* Multilingual Plane.
EntityCodes == {65, 233, 8364, 65601, 128512}

\* References, and what each stands for (XML 1.0, sections 4.1 and 4.6); a
\* reference to an undeclared entity stands for its own text.
EntityCases ==
  {[ref |-> S(<<"a", "m", "p">>), text |-> Ch("&")],
   [ref |-> S(<<"l", "t">>), text |-> Ch("<")],
   [ref |-> S(<<"g", "t">>), text |-> Ch(">")],
   [ref |-> S(<<"q", "u", "o", "t">>), text |-> Ch("\"")],
   [ref |-> S(<<"a", "p", "o", "s">>), text |-> Ch("'")],
   [ref |-> S(<<"n", "b", "s", "p">>), text |-> S(<<"&", "n", "b", "s", "p", ";">>)]}
    \cup {[ref |-> Ch("#") \o NatToString(n), text |-> FromCodePoint(n)] :
            n \in EntityCodes}
    \cup {[ref |-> S(<<"#", "x">>) \o NatToHex(n), text |-> FromCodePoint(n)] :
            n \in EntityCodes}

\* The document whose element has one attribute, holding one reference
\* between two letters.
EntityDoc(ref) ==
  S(<<"<", "a", " ", "b", "=", "\"", "x", "&">>) \o ref
    \o S(<<";", "y", "\"", "/", ">">>)

EntityDocs == {EntityDoc(case.ref) : case \in EntityCases}

\* What the reference of an EntityDoc stands for.
EntityText(text) ==
  (CHOOSE case \in EntityCases : EntityDoc(case.ref) = text).text

\* The character data of elements without child elements: with white space
\* inside, around, and both, on one line and on two.
LeafData ==
  <<S(<<"x", " ", "y">>),
    S(<<" ", "x", " ">>),
    S(<<"J", "o", "h", "n", " ", "D", "o", "e">>),
    S(<<"x", "\n", " ", "y", " ">>),
    S(<<" ">>)>>

\* The document whose element a has that character data.
LeafDoc(data) == S(<<"<", "a", ">">>) \o data \o S(<<"<", "/", "a", ">">>)

LeafDocs == {LeafDoc(data) : data \in Range(LeafData)}

\* The documents handed to parseXml and xmlToJson.
ParseInputs ==
  TokenDocs \cup Range(AttributeDocs) \cup ViolationDocs \cup PrologDocs
    \cup EntityDocs \cup LeafDocs \cup {simpleXml}

\* Schema texts besides sampleXsdSchema: a pattern facet that is not a
\* regular expression, one that is, a root that is no schema, and a text
\* that is not well formed.
Schemas ==
  <<S(<<"<", "s", "c", "h", "e", "m", "a", ">", "<", "e", "l", "e", "m", "e",
        "n", "t", " ", "n", "a", "m", "e", "=", "\"", "a", "\"", " ", "t", "y",
        "p", "e", "=", "\"", "T", "\"", "/", ">", "<", "s", "i", "m", "p", "l",
        "e", "T", "y", "p", "e", " ", "n", "a", "m", "e", "=", "\"", "T", "\"",
        ">", "<", "r", "e", "s", "t", "r", "i", "c", "t", "i", "o", "n", " ",
        "b", "a", "s", "e", "=", "\"", "s", "t", "r", "i", "n", "g", "\"", ">",
        "<", "p", "a", "t", "t", "e", "r", "n", " ", "v", "a", "l", "u", "e",
        "=", "\"", "[", "\"", "/", ">", "<", "/", "r", "e", "s", "t", "r", "i",
        "c", "t", "i", "o", "n", ">", "<", "/", "s", "i", "m", "p", "l", "e",
        "T", "y", "p", "e", ">", "<", "/", "s", "c", "h", "e", "m", "a", ">">>),
    S(<<"<", "s", "c", "h", "e", "m", "a", ">", "<", "e", "l", "e", "m", "e",
        "n", "t", " ", "n", "a", "m", "e", "=", "\"", "a", "\"", " ", "t", "y",
        "p", "e", "=", "\"", "T", "\"", "/", ">", "<", "s", "i", "m", "p", "l",
        "e", "T", "y", "p", "e", " ", "n", "a", "m", "e", "=", "\"", "T", "\"",
        ">", "<", "r", "e", "s", "t", "r", "i", "c", "t", "i", "o", "n", " ",
        "b", "a", "s", "e", "=", "\"", "s", "t", "r", "i", "n", "g", "\"", ">",
        "<", "p", "a", "t", "t", "e", "r", "n", " ", "v", "a", "l", "u", "e",
        "=", "\"", "x", "+", "\"", "/", ">", "<", "/", "r", "e", "s", "t", "r",
        "i", "c", "t", "i", "o", "n", ">", "<", "/", "s", "i", "m", "p", "l",
        "e", "T", "y", "p", "e", ">", "<", "/", "s", "c", "h", "e", "m", "a",
        ">">>),
    S(<<"<", "a", "/", ">">>),
    S(<<"<", "s", "c", "h", "e", "m", "a", ">">>)>>
\* Documents besides those of src/test.ts.
Documents ==
  <<S(<<"<", "a", ">", "x", "<", "/", "a", ">">>),
    S(<<"<", "a", ">", "y", "<", "/", "a", ">">>),
    S(<<"<", "b", "/", ">">>),
    S(<<"<", "a", ">", "<", "/", "b", ">">>)>>

\* A schema whose root element library has the named type L, a sequence of
\* repeated book elements of the named type B, which requires attribute id.
LibrarySchema ==
  S(<<"<", "s", "c", "h", "e", "m", "a", ">", "<", "e", "l", "e", "m", "e",
      "n", "t", " ", "n", "a", "m", "e", "=", "\"", "l", "i", "b", "r", "a",
      "r", "y", "\"", " ", "t", "y", "p", "e", "=", "\"", "L", "\"", "/", ">",
      "<", "c", "o", "m", "p", "l", "e", "x", "T", "y", "p", "e", " ", "n",
      "a", "m", "e", "=", "\"", "L", "\"", ">", "<", "s", "e", "q", "u", "e",
      "n", "c", "e", ">", "<", "e", "l", "e", "m", "e", "n", "t", " ", "n",
      "a", "m", "e", "=", "\"", "b", "o", "o", "k", "\"", " ", "t", "y", "p",
      "e", "=", "\"", "B", "\"", " ", "m", "a", "x", "O", "c", "c", "u", "r",
      "s", "=", "\"", "u", "n", "b", "o", "u", "n", "d", "e", "d", "\"", "/",
      ">", "<", "/", "s", "e", "q", "u", "e", "n", "c", "e", ">", "<", "/",
      "c", "o", "m", "p", "l", "e", "x", "T", "y", "p", "e", ">", "<", "c",
      "o", "m", "p", "l", "e", "x", "T", "y", "p", "e", " ", "n", "a", "m",
      "e", "=", "\"", "B", "\"", ">", "<", "a", "t", "t", "r", "i", "b", "u",
      "t", "e", " ", "n", "a", "m", "e", "=", "\"", "i", "d", "\"", " ", "t",
      "y", "p", "e", "=", "\"", "s", "t", "r", "i", "n", "g", "\"", " ", "u",
      "s", "e", "=", "\"", "r", "e", "q", "u", "i", "r", "e", "d", "\"", "/",
      ">", "<", "/", "c", "o", "m", "p", "l", "e", "x", "T", "y", "p", "e",
      ">", "<", "/", "s", "c", "h", "e", "m", "a", ">">>)

\* The same schema written as sampleXsdSchema is: the root element has an
\* inline complexType and the type of book is referred to by a prefixed name.
InlineLibrarySchema ==
  S(<<"<", "x", "s", ":", "s", "c", "h", "e", "m", "a", ">", "<", "x", "s",
      ":", "e", "l", "e", "m", "e", "n", "t", " ", "n", "a", "m", "e", "=",
      "\"", "l", "i", "b", "r", "a", "r", "y", "\"", ">", "<", "x", "s", ":",
      "c", "o", "m", "p", "l", "e", "x", "T", "y", "p", "e", ">", "<", "x",
      "s", ":", "s", "e", "q", "u", "e", "n", "c", "e", ">", "<", "x", "s",
      ":", "e", "l", "e", "m", "e", "n", "t", " ", "n", "a", "m", "e", "=",
      "\"", "b", "o", "o", "k", "\"", " ", "t", "y", "p", "e", "=", "\"", "t",
      "n", "s", ":", "B", "\"", " ", "m", "a", "x", "O", "c", "c", "u", "r",
      "s", "=", "\"", "u", "n", "b", "o", "u", "n", "d", "e", "d", "\"", "/",
      ">", "<", "/", "x", "s", ":", "s", "e", "q", "u", "e", "n", "c", "e",
      ">", "<", "/", "x", "s", ":", "c", "o", "m", "p", "l", "e", "x", "T",
      "y", "p", "e", ">", "<", "/", "x", "s", ":", "e", "l", "e", "m", "e",
      "n", "t", ">", "<", "x", "s", ":", "c", "o", "m", "p", "l", "e", "x",
      "T", "y", "p", "e", " ", "n", "a", "m", "e", "=", "\"", "B", "\"", ">",
      "<", "x", "s", ":", "a", "t", "t", "r", "i", "b", "u", "t", "e", " ",
      "n", "a", "m", "e", "=", "\"", "i", "d", "\"", " ", "t", "y", "p", "e",
      "=", "\"", "x", "s", ":", "s", "t", "r", "i", "n", "g", "\"", " ", "u",
      "s", "e", "=", "\"", "r", "e", "q", "u", "i", "r", "e", "d", "\"", "/",
      ">", "<", "/", "x", "s", ":", "c", "o", "m", "p", "l", "e", "x", "T",
      "y", "p", "e", ">", "<", "/", "x", "s", ":", "s", "c", "h", "e", "m",
      "a", ">">>)

\* Documents for the library schemas: the second of three books omits id;
\* every book has its id; the root carries a namespace declaration.
LibraryDocs ==
  <<S(<<"<", "l", "i", "b", "r", "a", "r", "y", ">", "<", "b", "o", "o", "k", " ",
        "i", "d", "=", "\"", "1", "\"", "/", ">", "<", "b", "o", "o", "k", "/",
        ">", "<", "b", "o", "o", "k", " ", "i", "d", "=", "\"", "2", "\"", "/",
        ">", "<", "/", "l", "i", "b", "r", "a", "r", "y", ">">>),
    S(<<"<", "l", "i", "b", "r", "a", "r", "y", ">", "<", "b", "o", "o", "k", " ",
        "i", "d", "=", "\"", "1", "\"", "/", ">", "<", "b", "o", "o", "k", " ",
        "i", "d", "=", "\"", "2", "\"", "/", ">", "<", "/", "l", "i", "b", "r",
        "a", "r", "y", ">">>),
    S(<<"<", "l", "i", "b", "r", "a", "r", "y", " ", "x", "m", "l", "n", "s", "=",
        "\"", "u", "\"", ">", "<", "b", "o", "o", "k", " ", "i", "d", "=", "\"",
        "1", "\"", "/", ">", "<", "/", "l", "i", "b", "r", "a", "r", "y", ">">>)>>

\* A schema whose root element a has a simple type restricted by the pattern
\* of ISBNType in sampleXsdSchema.
IsbnSchema ==
  S(<<"<", "s", "c", "h", "e", "m", "a", ">", "<", "e", "l", "e", "m", "e",
      "n", "t", " ", "n", "a", "m", "e", "=", "\"", "a", "\"", " ", "t", "y",
      "p", "e", "=", "\"", "T", "\"", "/", ">", "<", "s", "i", "m", "p", "l",
      "e", "T", "y", "p", "e", " ", "n", "a", "m", "e", "=", "\"", "T", "\"",
      ">", "<", "r", "e", "s", "t", "r", "i", "c", "t", "i", "o", "n", " ",
      "b", "a", "s", "e", "=", "\"", "s", "t", "r", "i", "n", "g", "\"", ">",
      "<", "p", "a", "t", "t", "e", "r", "n", " ", "v", "a", "l", "u", "e",
      "=", "\"", "[", "0", "-", "9", "]", "{", "3", "}", "-", "[", "0", "-",
      "9", "]", "{", "1", "0", "}", "\"", "/", ">", "<", "/", "r", "e", "s",
      "t", "r", "i", "c", "t", "i", "o", "n", ">", "<", "/", "s", "i", "m",
      "p", "l", "e", "T", "y", "p", "e", ">", "<", "/", "s", "c", "h", "e",
      "m", "a", ">">>)

\* Documents for it: the two texts of src/test.ts, and texts that contain a
\* match of the pattern without being one.
IsbnDocs ==
  <<S(<<"<", "a", ">", "i", "n", "v", "a", "l", "i", "d", "-", "i", "s", "b", "n",
        "<", "/", "a", ">">>),
    S(<<"<", "a", ">", "9", "7", "8", "-", "0", "1", "4", "2", "4", "3", "7", "1",
        "7", "1", "<", "/", "a", ">">>),
    S(<<"<", "a", ">", "x", "9", "7", "8", "-", "0", "1", "4", "2", "4", "3", "7",
        "1", "7", "1", "<", "/", "a", ">">>),
    S(<<"<", "a", ">", "9", "7", "8", "-", "0", "1", "4", "2", "4", "3", "7", "1",
        "7", "1", "0", "<", "/", "a", ">">>)>>

\* A schema whose root element r has the named type R, a sequence of a (one
\* or more) and b (at most one).
OccursSchema ==
  S(<<"<", "s", "c", "h", "e", "m", "a", ">", "<", "e", "l", "e", "m", "e",
      "n", "t", " ", "n", "a", "m", "e", "=", "\"", "r", "\"", " ", "t", "y",
      "p", "e", "=", "\"", "R", "\"", "/", ">", "<", "c", "o", "m", "p", "l",
      "e", "x", "T", "y", "p", "e", " ", "n", "a", "m", "e", "=", "\"", "R",
      "\"", ">", "<", "s", "e", "q", "u", "e", "n", "c", "e", ">", "<", "e",
      "l", "e", "m", "e", "n", "t", " ", "n", "a", "m", "e", "=", "\"", "a",
      "\"", " ", "t", "y", "p", "e", "=", "\"", "s", "t", "r", "i", "n", "g",
      "\"", " ", "m", "i", "n", "O", "c", "c", "u", "r", "s", "=", "\"", "1",
      "\"", " ", "m", "a", "x", "O", "c", "c", "u", "r", "s", "=", "\"", "u",
      "n", "b", "o", "u", "n", "d", "e", "d", "\"", "/", ">", "<", "e", "l",
      "e", "m", "e", "n", "t", " ", "n", "a", "m", "e", "=", "\"", "b", "\"",
      " ", "t", "y", "p", "e", "=", "\"", "s", "t", "r", "i", "n", "g", "\"",
      " ", "m", "i", "n", "O", "c", "c", "u", "r", "s", "=", "\"", "0", "\"",
      " ", "m", "a", "x", "O", "c", "c", "u", "r", "s", "=", "\"", "1", "\"",
      "/", ">", "<", "/", "s", "e", "q", "u", "e", "n", "c", "e", ">", "<",
      "/", "c", "o", "m", "p", "l", "e", "x", "T", "y", "p", "e", ">", "<",
      "/", "s", "c", "h", "e", "m", "a", ">">>)

\* Documents for it, with zero to two children of each name, and text.
OccursDocs ==
  <<S(<<"<", "r", "/", ">">>),
    S(<<"<", "r", ">", "<", "a", "/", ">", "<", "/", "r", ">">>),
    S(<<"<", "r", ">", "<", "a", "/", ">", "<", "b", "/", ">", "<", "b", "/", ">",
        "<", "/", "r", ">">>),
    S(<<"<", "r", ">", "x", "<", "b", "/", ">", "<", "/", "r", ">">>),
    S(<<"<", "r", ">", "<", "a", "/", ">", "<", "a", "/", ">", "<", "b", "/", ">",
        "<", "/", "r", ">">>)>>

\* A schema whose root element a has an attribute v of type int with the
\* fixed value 5.
FixedSchema ==
  S(<<"<", "s", "c", "h", "e", "m", "a", ">", "<", "e", "l", "e", "m", "e",
      "n", "t", " ", "n", "a", "m", "e", "=", "\"", "a", "\"", " ", "t", "y",
      "p", "e", "=", "\"", "A", "\"", "/", ">", "<", "c", "o", "m", "p", "l",
      "e", "x", "T", "y", "p", "e", " ", "n", "a", "m", "e", "=", "\"", "A",
      "\"", ">", "<", "a", "t", "t", "r", "i", "b", "u", "t", "e", " ", "n",
      "a", "m", "e", "=", "\"", "v", "\"", " ", "t", "y", "p", "e", "=", "\"",
      "i", "n", "t", "\"", " ", "f", "i", "x", "e", "d", "=", "\"", "5", "\"",
      "/", ">", "<", "/", "c", "o", "m", "p", "l", "e", "x", "T", "y", "p",
      "e", ">", "<", "/", "s", "c", "h", "e", "m", "a", ">">>)

\* Documents for it: the fixed value, another int, and a value that is no int.
FixedDocs ==
  <<S(<<"<", "a", " ", "v", "=", "\"", "5", "\"", "/", ">">>),
    S(<<"<", "a", " ", "v", "=", "\"", "6", "\"", "/", ">">>),
    S(<<"<", "a", " ", "v", "=", "\"", "x", "\"", "/", ">">>)>>

\* A schema that declares the one element a.
RootSchema ==
  S(<<"<", "s", "c", "h", "e", "m", "a", ">", "<", "e", "l", "e", "m", "e",
      "n", "t", " ", "n", "a", "m", "e", "=", "\"", "a", "\"", " ", "t", "y",
      "p", "e", "=", "\"", "s", "t", "r", "i", "n", "g", "\"", "/", ">", "<",
      "/", "s", "c", "h", "e", "m", "a", ">">>)

\* Documents for it: the declared root, roots no schema declares, and roots
\* named as members of Object.prototype are.
RootDocs ==
  <<S(<<"<", "a", "/", ">">>),
    S(<<"<", "b", "/", ">">>),
    S(<<"<", "c", "o", "n", "s", "t", "r", "u", "c", "t", "o", "r", "/", ">">>),
    S(<<"<", "t", "o", "S", "t", "r", "i", "n", "g", "/", ">">>),
    S(<<"<", "_", "_", "p", "r", "o", "t", "o", "_", "_", "/", ">">>)>>

\* Schema texts loaded on their own: roots with and without the local name
\* schema, and a text that is not well formed.
RootTexts ==
  <<S(<<"<", "x", "s", ":", "s", "c", "h", "e", "m", "a", "/", ">">>),
    S(<<"<", "a", ":", "b", ":", "s", "c", "h", "e", "m", "a", "/", ">">>),
    S(<<"<", "s", "c", "h", "e", "m", "a", "s", "/", ">">>),
    S(<<"<", "x", "s", ":", "s", "c", "h", "e", "m", "a", "t", "a", "/", ">">>),
    S(<<"<", "s", "c", "h", "e", "m", "a", ">", "<", "/", "x", ">">>),
    S(<<"<", "s", "c", "h", "e", "m", "a", " ", "a", "=", "\"", "1", "\"", " ",
        "a", "=", "\"", "2", "\"", "/", ">">>)>>

\* Each suite is a set of schema texts with the documents validated against
\* each of them.
Suites ==
  <<[schemas |-> {LibrarySchema, InlineLibrarySchema}, docs |-> LibraryDocs],
    [schemas |-> {IsbnSchema}, docs |-> IsbnDocs],
    [schemas |-> {OccursSchema}, docs |-> OccursDocs],
    [schemas |-> {FixedSchema}, docs |-> FixedDocs],
    [schemas |-> {RootSchema}, docs |-> RootDocs]>>

\* The runs of validateXml calls on documents of a suite.
SuiteRuns(suite) ==
  UNION {[1..k -> Range(suite.docs)] : k \in 1..MaxValidations}

\* One schema of a suite is loaded, then documents of the suite are
\* validated, any of them any number of times.
SuiteScripts ==
  UNION {{<<[op |-> "loadSchema", arg |-> text]>>
            \o [i \in 1..Len(run) |-> [op |-> "validateXml", arg |-> run[i]]] :
              text \in suite.schemas, run \in SuiteRuns(suite)} :
           suite \in Range(Suites)}

\* Documents parsed one after another by one parser: well formed and not,
\* on one line and on several.
ReuseDocs ==
  <<S(<<"<", "b", "/", ">">>),
    S(<<"<", "a", ">", "\n", " ", "<", "b", ">", "<", "/", "c", ">">>),
    S(<<"<", "a", ">", "\n", "<", "b", ">", "x", "<", "/", "b", ">", "\n", "<",
        "/", "a", ">">>)>>

\* One client parses a document, then another, then the first again.
ReuseScripts ==
  {<<[op |-> "parseXml", arg |-> x], [op |-> "xmlToJson", arg |-> y],
     [op |-> "parseXml", arg |-> x]>> :
     x, y \in Range(ReuseDocs) \cup {simpleXml, malformedXml}}

\* A schema whose root element a has a named type that requires the
\* attributes id and valueOf.
AttrSchema ==
  S(<<"<", "s", "c", "h", "e", "m", "a", ">", "<", "e", "l", "e", "m", "e",
      "n", "t", " ", "n", "a", "m", "e", "=", "\"", "a", "\"", " ", "t", "y",
      "p", "e", "=", "\"", "A", "\"", "/", ">", "<", "c", "o", "m", "p", "l",
      "e", "x", "T", "y", "p", "e", " ", "n", "a", "m", "e", "=", "\"", "A",
      "\"", ">", "<", "a", "t", "t", "r", "i", "b", "u", "t", "e", " ", "n",
      "a", "m", "e", "=", "\"", "i", "d", "\"", " ", "u", "s", "e", "=", "\"",
      "r", "e", "q", "u", "i", "r", "e", "d", "\"", "/", ">", "<", "a", "t",
      "t", "r", "i", "b", "u", "t", "e", " ", "n", "a", "m", "e", "=", "\"",
      "v", "a", "l", "u", "e", "O", "f", "\"", " ", "u", "s", "e", "=", "\"",
      "r", "e", "q", "u", "i", "r", "e", "d", "\"", "/", ">", "<", "/", "c",
      "o", "m", "p", "l", "e", "x", "T", "y", "p", "e", ">", "<", "/", "s",
      "c", "h", "e", "m", "a", ">">>)

\* Documents for it: with both attributes, with an empty one, with one, with
\* none.
AttrDocs ==
  <<S(<<"<", "a", "/", ">">>),
    S(<<"<", "a", " ", "i", "d", "=", "\"", "\"", " ", "v", "a", "l", "u", "e",
        "O", "f", "=", "\"", "1", "\"", "/", ">">>),
    S(<<"<", "a", " ", "i", "d", "=", "\"", "1", "\"", " ", "v", "a", "l", "u",
        "e", "O", "f", "=", "\"", "2", "\"", "/", ">">>),
    S(<<"<", "a", " ", "i", "d", "=", "\"", "1", "\"", "/", ">">>)>>

\* Documents for OccursSchema with children it does not declare and with
\* text before, between and after the children.
ExtraDocs ==
  <<S(<<"<", "r", ">", "<", "a", "/", ">", "<", "c", "/", ">", "x", "<", "c", "/",
        ">", "<", "d", "/", ">", "<", "/", "r", ">">>),
    S(<<"<", "r", ">", "<", "a", "/", ">", "x", "<", "/", "r", ">">>),
    S(<<"<", "r", ">", "x", "<", "a", "/", ">", "y", "<", "b", "/", ">", "<", "/",
        "r", ">">>)>>

\* A schema whose root element a has an inline complexType that requires an
\* attribute and declares a child.
InlineComplexSchema ==
  S(<<"<", "s", "c", "h", "e", "m", "a", ">", "<", "e", "l", "e", "m", "e",
      "n", "t", " ", "n", "a", "m", "e", "=", "\"", "a", "\"", ">", "<", "c",
      "o", "m", "p", "l", "e", "x", "T", "y", "p", "e", ">", "<", "a", "t",
      "t", "r", "i", "b", "u", "t", "e", " ", "n", "a", "m", "e", "=", "\"",
      "i", "d", "\"", " ", "u", "s", "e", "=", "\"", "r", "e", "q", "u", "i",
      "r", "e", "d", "\"", "/", ">", "<", "s", "e", "q", "u", "e", "n", "c",
      "e", ">", "<", "e", "l", "e", "m", "e", "n", "t", " ", "n", "a", "m",
      "e", "=", "\"", "b", "\"", "/", ">", "<", "/", "s", "e", "q", "u", "e",
      "n", "c", "e", ">", "<", "/", "c", "o", "m", "p", "l", "e", "x", "T",
      "y", "p", "e", ">", "<", "/", "e", "l", "e", "m", "e", "n", "t", ">",
      "<", "/", "s", "c", "h", "e", "m", "a", ">">>)

\* Documents for it: empty, with an undeclared attribute and undeclared
\* children, as the inline type describes, and with text.
InlineComplexDocs ==
  <<S(<<"<", "a", "/", ">">>),
    S(<<"<", "a", " ", "x", "=", "\"", "1", "\"", ">", "<", "c", "/", ">", "t",
        "<", "c", "/", ">", "<", "/", "a", ">">>),
    S(<<"<", "a", " ", "i", "d", "=", "\"", "1", "\"", ">", "<", "b", "/", ">",
        "<", "/", "a", ">">>),
    S(<<"<", "a", ">", "t", "<", "/", "a", ">">>)>>

\* A schema whose root element a has an inline complexType, and which has a
\* named complexType called '#inline-a' that requires the attribute id.
InlineNamedSchema ==
  S(<<"<", "s", "c", "h", "e", "m", "a", ">", "<", "e", "l", "e", "m", "e",
      "n", "t", " ", "n", "a", "m", "e", "=", "\"", "a", "\"", ">", "<", "c",
      "o", "m", "p", "l", "e", "x", "T", "y", "p", "e", "/", ">", "<", "/",
      "e", "l", "e", "m", "e", "n", "t", ">", "<", "c", "o", "m", "p", "l",
      "e", "x", "T", "y", "p", "e", " ", "n", "a", "m", "e", "=", "\"", "#",
      "i", "n", "l", "i", "n", "e", "-", "a", "\"", ">", "<", "a", "t", "t",
      "r", "i", "b", "u", "t", "e", " ", "n", "a", "m", "e", "=", "\"", "i",
      "d", "\"", " ", "u", "s", "e", "=", "\"", "r", "e", "q", "u", "i", "r",
      "e", "d", "\"", "/", ">", "<", "/", "c", "o", "m", "p", "l", "e", "x",
      "T", "y", "p", "e", ">", "<", "/", "s", "c", "h", "e", "m", "a", ">">>)

\* Documents for it: without the attribute, and with it and a child.
InlineNamedDocs ==
  <<S(<<"<", "a", "/", ">">>),
    S(<<"<", "a", " ", "i", "d", "=", "\"", "1", "\"", ">", "<", "b", "/", ">",
        "<", "/", "a", ">">>)>>

\* A schema whose root element a has an inline simpleType restricting
\* integer by an enumeration and a maximal length.
InlineSimpleSchema ==
  S(<<"<", "s", "c", "h", "e", "m", "a", ">", "<", "e", "l", "e", "m", "e",
      "n", "t", " ", "n", "a", "m", "e", "=", "\"", "a", "\"", ">", "<", "s",
      "i", "m", "p", "l", "e", "T", "y", "p", "e", ">", "<", "r", "e", "s",
      "t", "r", "i", "c", "t", "i", "o", "n", " ", "b", "a", "s", "e", "=",
      "\"", "i", "n", "t", "e", "g", "e", "r", "\"", ">", "<", "e", "n", "u",
      "m", "e", "r", "a", "t", "i", "o", "n", " ", "v", "a", "l", "u", "e",
      "=", "\"", "x", "\"", "/", ">", "<", "m", "a", "x", "L", "e", "n", "g",
      "t", "h", " ", "v", "a", "l", "u", "e", "=", "\"", "1", "\"", "/", ">",
      "<", "/", "r", "e", "s", "t", "r", "i", "c", "t", "i", "o", "n", ">",
      "<", "/", "s", "i", "m", "p", "l", "e", "T", "y", "p", "e", ">", "<",
      "/", "e", "l", "e", "m", "e", "n", "t", ">", "<", "/", "s", "c", "h",
      "e", "m", "a", ">">>)

\* Documents for it: the enumerated value, a longer one, an attribute and a
\* child, and a number.
InlineSimpleDocs ==
  <<S(<<"<", "a", ">", "x", "<", "/", "a", ">">>),
    S(<<"<", "a", ">", "y", "y", "<", "/", "a", ">">>),
    S(<<"<", "a", " ", "k", "=", "\"", "1", "\"", ">", "<", "b", "/", ">", "<",
        "/", "a", ">">>),
    S(<<"<", "a", ">", "7", "<", "/", "a", ">">>)>>

\* Schema texts loaded on their own whose elements give minOccurs and
\* maxOccurs: a negative number, no number, a number followed by a letter,
\* numbers, the word unbounded, and nothing.
OccursTexts ==
  <<S(<<"<", "s", "c", "h", "e", "m", "a", ">", "<", "e", "l", "e", "m", "e", "n",
        "t", " ", "n", "a", "m", "e", "=", "\"", "a", "\"", " ", "m", "i", "n",
        "O", "c", "c", "u", "r", "s", "=", "\"", "-", "1", "\"", "/", ">", "<",
        "/", "s", "c", "h", "e", "m", "a", ">">>),
    S(<<"<", "s", "c", "h", "e", "m", "a", ">", "<", "e", "l", "e", "m", "e", "n",
        "t", " ", "n", "a", "m", "e", "=", "\"", "a", "\"", " ", "m", "i", "n",
        "O", "c", "c", "u", "r", "s", "=", "\"", "x", "\"", " ", "m", "a", "x",
        "O", "c", "c", "u", "r", "s", "=", "\"", "2", "y", "\"", "/", ">", "<",
        "/", "s", "c", "h", "e", "m", "a", ">">>),
    S(<<"<", "s", "c", "h", "e", "m", "a", ">", "<", "e", "l", "e", "m", "e", "n",
        "t", " ", "n", "a", "m", "e", "=", "\"", "a", "\"", " ", "m", "i", "n",
        "O", "c", "c", "u", "r", "s", "=", "\"", "0", "\"", " ", "m", "a", "x",
        "O", "c", "c", "u", "r", "s", "=", "\"", "u", "n", "b", "o", "u", "n",
        "d", "e", "d", "\"", "/", ">", "<", "e", "l", "e", "m", "e", "n", "t",
        " ", "n", "a", "m", "e", "=", "\"", "b", "\"", " ", "m", "a", "x", "O",
        "c", "c", "u", "r", "s", "=", "\"", "3", "\"", "/", ">", "<", "/", "s",
        "c", "h", "e", "m", "a", ">">>)>>

\* Each case is a schema text with documents that are validated against it,
\* one document after one load.
Cases ==
  <<[schema |-> AttrSchema, docs |-> AttrDocs],
    [schema |-> OccursSchema, docs |-> ExtraDocs],
    [schema |-> InlineComplexSchema, docs |-> InlineComplexDocs],
    [schema |-> InlineNamedSchema, docs |-> InlineNamedDocs],
    [schema |-> InlineSimpleSchema, docs |-> InlineSimpleDocs]>>

CaseScripts ==
  UNION {{<<[op |-> "loadSchema", arg |-> Cases[n].schema],
            [op |-> "validateXml", arg |-> text]>> :
            text \in Range(Cases[n].docs)} :
           n \in 1..Len(Cases)}

\* One client validates before any schema is loaded, after a load that
\* failed, after one that succeeded (a document that is not well formed),
\* after another that failed, and after a second one that succeeded.
LifecycleScripts ==
  {<<[op |-> "validateXml", arg |-> doc],
     [op |-> "loadSchema", arg |-> bad],
     [op |-> "validateXml", arg |-> doc],
     [op |-> "loadSchema", arg |-> first],
     [op |-> "validateXml", arg |-> Documents[4]],
     [op |-> "loadSchema", arg |-> bad],
     [op |-> "validateXml", arg |-> doc],
     [op |-> "loadSchema", arg |-> second],
     [op |-> "validateXml", arg |-> doc]>> :
     doc \in {OccursDocs[1], OccursDocs[2]},
     bad \in {RootTexts[3], RootTexts[5]},
     first, second \in {RootSchema, OccursSchema}}

\* The calls made on an XmlHelper that loads schemas and validates.
HelperCalls ==
  {[op |-> "loadSchema", arg |-> text] :
     text \in Range(Schemas) \cup {sampleXsdSchema}}
    \cup {[op |-> "validateXml", arg |-> text] :
            text \in Range(Documents) \cup {validXml, invalidXml}}

\* Each script is the run of calls one client makes on one XmlHelper.
Scripts ==
  {<<[op |-> method, arg |-> text]>> :
     method \in {"parseXml", "xmlToJson"}, text \in ParseInputs}
    \cup UNION {[1..k -> HelperCalls] : k \in 1..MaxCalls}
    \cup {<<[op |-> "loadSchema", arg |-> text]>> :
            text \in Range(RootTexts) \cup Range(OccursTexts)}
    \cup SuiteScripts
    \cup ReuseScripts
    \cup CaseScripts
    \cup LifecycleScripts

----------------------------------------------------------------------------
(* The state machine                                                       *)

\* A new XmlHelper, lines 407-410, its parsers not yet used, and the client
\* about to run one script.
Init ==
  /\ xml = <<>>
  /\ position = 0
  /\ line = 1
  /\ column = 1
  /\ pc = "idle"
  /\ frames = <<>>
  /\ thrown = <<>>
  /\ result = NoResult
  /\ op = "none"
  /\ schema = <<>>
  /\ validator = <<>>
  /\ validatorErrors = 0
  /\ arrays = <<>>
  /\ log = <<>>
  /\ out = NoOut
  /\ script \in Scripts

Next ==
  \/ CallParseXml
  \/ ReturnParseXml
  \/ CallXmlToJson
  \/ ReturnXmlToJson
  \/ CallLoadSchema
  \/ ReturnLoadSchema
  \/ ValidateXmlNoSchema
  \/ CallValidateXml
  \/ ReturnValidateXml
  \/ ParseStart
  \/ PrologLoop
  \/ SkipComment
  \/ SkipProcessingInstruction
  \/ ParseElement
  \/ ParseElementContent
  \/ CloseElement
  \/ Catch

Spec == Init /\ [][Next]_vars

\* The steps of a running parse().
ParseStep ==
  \/ ParseStart
  \/ PrologLoop
  \/ SkipComment
  \/ SkipProcessingInstruction
  \/ ParseElement
  \/ ParseElementContent
  \/ CloseElement
  \/ Catch

\* A parse that has started keeps running: the JavaScript engine runs a
\* synchronous call to its end without pausing.
FairSpec == Spec /\ WF_vars(ParseStep)

----------------------------------------------------------------------------
(* Properties of XmlParser.parse                                           *)

\* C1: parse terminates for every finite input string: every call of parse
\* that has started eventually returns a (node, errors) result, also on
\* inputs whose first characters after white space are '<!'.
C1_ParseTerminates == (pc = "parse") ~> (pc = "return")

\* C2: for optional white space, an optional XML declaration and any run of
\* comments, DOCTYPE blocks and processing instructions followed by a
\* well-formed root element, parse returns the tree of that root element
\* with an empty diagnostics list.
C2_PrologSkipped ==
  [](pc = "parse" /\ xml \in PrologDocs
       => <>(/\ pc = "return"
             /\ xml \in PrologDocs
             /\ result = [node |-> <<PrologTree(xml)>>, errors |-> <<>>]))

\* C3: for any well-formed input with matched tags, parse returns a
\* non-absent tree and an empty diagnostics list.
C3_WellFormedAccepted ==
  (pc = "return" /\ xml \in WellFormedDocs)
    => (result.node # <<>> /\ result.errors = <<>>)

\* C4: every result returned by parse is either a tree with an empty
\* diagnostics list or an absent tree with exactly one diagnostic, whose
\* code is PARSE_ERROR.
C4_TwoResultShapes ==
  pc = "return"
    => \/ result.node # <<>> /\ result.errors = <<>>
       \/ /\ result.node = <<>>
          /\ Len(result.errors) = 1
          /\ result.errors[1].code = "PARSE_ERROR"

\* A parse has returned an absent tree with its one diagnostic.
C4_ErrorResult ==
  /\ pc = "return"
  /\ result.node = <<>>
  /\ Len(result.errors) = 1
  /\ result.errors[1].code = "PARSE_ERROR"

\* C5: an unexpected end tag, a mismatched end tag, an attribute name
\* without '=', an unterminated attribute value, an invalid name-start
\* character or an unterminated entity reference, anywhere in the input,
\* makes parse return an absent tree and exactly one PARSE_ERROR diagnostic,
\* and makes xmlToJson report success = false with that diagnostic.
C5_ViolationsRejected ==
  /\ (pc = "return" /\ xml \in ViolationDocs)
       => /\ result.node = <<>>
          /\ Len(result.errors) = 1
          /\ result.errors[1].code = "PARSE_ERROR"
  /\ (pc = "idle" /\ out.op = "xmlToJson" /\ xml \in ViolationDocs)
       => /\ ~out.threw
          /\ ~out.success
          /\ out.errors = result.errors
          /\ Len(out.errors) = 1

\* The number of newline characters among the first n code units of s.
NewlinesBefore(s, n) == Cardinality({i \in 1..n : s[i] = 10})

\* The offset just after the last newline among the first n code units of
\* s, or 0 when there is none.
LineStart(s, n) ==
  IF \E i \in 1..n : s[i] = 10
  THEN CHOOSE i \in 1..n : s[i] = 10 /\ \A j \in (i + 1)..n : s[j] # 10
  ELSE 0

\* C6: in every reachable state the offset does not exceed the input's
\* length, line is 1 plus the number of newlines before the offset, column
\* is 1 plus the distance from the last such newline or the start of the
\* input, and a PARSE_ERROR diagnostic carries the cursor's line and column.
C6_CursorConsistent ==
  /\ position <= Len(xml)
  /\ line = 1 + NewlinesBefore(xml, position)
  /\ column = 1 + (position - LineStart(xml, position))
  /\ (pc = "return" /\ result.errors # <<>>)
       => /\ result.errors[1].line = line
          /\ result.errors[1].column = column

\* An error was raised after a newline was consumed, away from the start of
\* its line.
C6_ErrorPastNewline ==
  /\ pc = "return"
  /\ result.errors # <<>>
  /\ result.errors[1].line > 1
  /\ result.errors[1].column > 1

\* C7: attribute values are entity-decoded: the five predefined entities
\* decode to their characters, decimal and hexadecimal numeric references
\* decode to the character with that code, and any other reference is kept
\* as its literal text, without an error.
C7_EntitiesDecoded ==
  (pc = "return" /\ xml \in EntityDocs)
    => /\ result.errors = <<>>
       /\ result.node # <<>>
       /\ result.node[1].attributes
            = <<[name |-> <<98>>,
                 value |-> <<120>> \o EntityText(xml) \o <<121>>]>>

RECURSIVE NodeShaped(_)
\* Whether a node and every node below it keep text and children apart: a
\* '#text' node has no children and no attributes, any other node has no
\* text when it has children.
NodeShaped(node) ==
  /\ node.name = TextName => (node.children = <<>> /\ node.attributes = <<>>)
  /\ node.name # TextName => ~(node.text # <<>> /\ node.children # <<>>)
  /\ \A i \in 1..Len(node.children) : NodeShaped(node.children[i])

\* C8: in every tree returned by parse, no node other than a '#text' node
\* has both a text and a non-empty children list, and '#text' nodes have no
\* children and no attributes.
C8_TextExcludesChildren ==
  (pc = "return" /\ result.node # <<>>) => NodeShaped(result.node[1])

\* A tree of mixed content was returned: its root has a '#text' child and
\* an element child.
C8_MixedContent ==
  /\ pc = "return"
  /\ result.node # <<>>
  /\ \E i, j \in 1..Len(result.node[1].children) :
       /\ result.node[1].children[i].name = TextName
       /\ result.node[1].children[i].text # <<>>
       /\ result.node[1].children[j].name # TextName

----------------------------------------------------------------------------
(* Properties of XmlValidator.validate, seen through validateXml           *)

\* C9: validate never throws: for every schema parseSchema produced and
\* every tree parse produced it returns a diagnostics list, also when the
\* value of a pattern facet is not a regular expression.
C9_ValidateNeverThrows == out.op = "validateXml" => ~out.threw

\* Whether a schema refers to types by prefixed names and has an element
\* with an inline type.
PrefixedInlineSchema(sch) ==
  /\ \E i \in 1..Len(sch.elements) : StartsWith(sch.elements[i].type, StrInline)
  /\ \E i \in 1..Len(sch.complexTypes) :
       \E j \in 1..Len(sch.complexTypes[i].elements) :
         \E k \in 1..Len(sch.complexTypes[i].elements[j].type) :
           sch.complexTypes[i].elements[j].type[k] = 58

\* C10: with a schema loaded that refers to types by prefixed names and
\* whose root element has an inline complexType, validateXml of the document
\* invalidXml, which violates that schema, returns a non-empty error list.
C10_InvalidDocumentReported ==
  (/\ pc = "idle"
   /\ out.op = "validateXml"
   /\ xml = invalidXml
   /\ schema # <<>>
   /\ PrefixedInlineSchema(schema[1]))
    => out.errors # <<>>

----------------------------------------------------------------------------
(* Properties of the checks XmlValidator makes                             *)

\* How many of the diagnostics have the code.
CodeCount(errors, code) ==
  Cardinality({i \in 1..Len(errors) : errors[i].code = code})

\* A validateXml call that parsed its document and ran validate has
\* returned.
Validated ==
  /\ pc = "idle"
  /\ out.op = "validateXml"
  /\ schema # <<>>
  /\ result.errors = <<>>
  /\ result.node # <<>>

\* The loaded schema declares the element library and a complex type that
\* requires the attribute id.
LibraryDeclared ==
  /\ GetDef(schema[1].elements, S(<<"l", "i", "b", "r", "a", "r", "y">>)) # <<>>
  /\ \E i \in 1..Len(schema[1].complexTypes) :
       \E j \in 1..Len(schema[1].complexTypes[i].attributes) :
         /\ schema[1].complexTypes[i].attributes[j].name = S(<<"i", "d">>)
         /\ schema[1].complexTypes[i].attributes[j].use = StrRequired

\* The children of the node that are book elements without the attribute id.
BooksOmittingId(node) ==
  {i \in 1..Len(node.children) :
     /\ node.children[i].name = S(<<"b", "o", "o", "k">>)
     /\ ~HasAttribute(node.children[i].attributes, S(<<"i", "d">>))}

\* C11: with a schema whose root element library contains repeated book
\* elements that each require the attribute id, validating a document in
\* which exactly one book omits id yields exactly one diagnostic, a
\* MISSING_REQUIRED_ATTRIBUTE: the sibling books are validated and add
\* nothing.
C11_OneMissingAttribute ==
  (/\ Validated
   /\ LibraryDeclared
   /\ xml \in Range(LibraryDocs)
   /\ Cardinality(BooksOmittingId(result.node[1])) = 1)
    => /\ Len(out.errors) = 1
       /\ CodeCount(out.errors, "MISSING_REQUIRED_ATTRIBUTE") = 1

\* The simple types of the loaded schema that the root element of the
\* validated document has and whose one facet is a pattern that is a regular
\* expression.
RootPatternTypes ==
  {i \in 1..Len(schema[1].simpleTypes) :
     /\ \E e \in Range(schema[1].elements) :
          /\ e.name = result.node[1].name
          /\ e.type = schema[1].simpleTypes[i].name
     /\ Len(schema[1].simpleTypes[i].restrictions) = 1
     /\ schema[1].simpleTypes[i].restrictions[1].type = StrPattern
     /\ ~RegExp(schema[1].simpleTypes[i].restrictions[1].value.string).threw}

\* Whether the whole of value is in the language of the pattern.
InLanguage(pattern, value) ==
  Len(value) \in reEnds(RegExp(pattern).node, value, 0)

\* C12: a pattern facet requires the whole text value to match: validate
\* emits PATTERN_VIOLATION exactly when the complete text of the element is
\* not in the language of the pattern, once, so a text that only contains a
\* match is rejected.
C12_PatternFullMatch ==
  Validated =>
    \A i \in RootPatternTypes :
      CodeCount(out.errors, "PATTERN_VIOLATION")
        = IF InLanguage(schema[1].simpleTypes[i].restrictions[1].value.string,
                        textContentOf(result.node[1]))
          THEN 0 ELSE 1

\* The complex type the loaded schema gives the root element of the
\* validated document, if it is a named one of the schema.
RootComplexType ==
  IF GetDef(schema[1].elements, result.node[1].name) = <<>> THEN <<>>
  ELSE GetDef(schema[1].complexTypes,
              GetDef(schema[1].elements, result.node[1].name)[1].type)

\* How many children of the node that are not '#text' have the name.
ChildCount(node, name) ==
  Cardinality({i \in 1..Len(node.children) :
                 /\ node.children[i].name # TextName
                 /\ node.children[i].name = name})

\* The diagnostics with the code that name the element.
Naming(errors, code, name) ==
  SelectSeq(errors, LAMBDA e : e.code = code /\ e.message.args[1] = name)

FixedMismatches ==
  {i \in 1..Len(result.node[1].attributes) :
     \E a \in Range(RootComplexType[1].attributes) :
       /\ a.name = result.node[1].attributes[i].name
       /\ OrElse(a.fixedValue, <<>>) # <<>>
       /\ a.fixedValue[1] # result.node[1].attributes[i].value}

\* C14: a document attribute whose value differs from the fixed value its
\* declaration gives yields exactly one FIXED_VALUE_VIOLATION for that
\* attribute and no INVALID_ATTRIBUTE_VALUE: the lexical check of the value
\* is made only when the fixed-value check did not fail.
C14_FixedValueOnly ==
  (Validated /\ RootComplexType # <<>>) =>
    \A i \in FixedMismatches :
      /\ Len(Naming(out.errors, "FIXED_VALUE_VIOLATION",
                    result.node[1].attributes[i].name)) = 1
      /\ \A e \in Range(out.errors) :
           e.code = "INVALID_ATTRIBUTE_VALUE"
             => e.message.args[2] # result.node[1].attributes[i].name

----------------------------------------------------------------------------
(* Properties of XsdParser.parseSchema, seen through loadSchema            *)

\* The parser reported a problem: a diagnostic, or no tree.
ParserProblem == Len(result.errors) > 0 \/ result.node = <<>>

\* C17: parseSchema never builds a schema when the parser reports a
\* problem: it returns an absent schema with exactly the parser's
\* diagnostics, no SCHEMA_ERROR added, and loadSchema hands these
\* diagnostics on.
C17_ParserProblemReturned ==
  /\ (pc = "return" /\ op = "loadSchema" /\ ParserProblem)
       => parseSchema(result) = [schema |-> <<>>, errors |-> result.errors]
  /\ (pc = "idle" /\ out.op = "loadSchema" /\ ParserProblem)
       => out = Returned("loadSchema", <<>>, result.errors, FALSE)

\* loadSchema of a text that is not well formed has returned the parser's
\* one PARSE_ERROR.
C17_ParseErrorReturned ==
  /\ pc = "idle"
  /\ out.op = "loadSchema"
  /\ xml = RootTexts[5]
  /\ Len(result.errors) = 1
  /\ result.errors[1].code = "PARSE_ERROR"
  /\ out.errors = result.errors

\* C18: parseSchema accepts a parsed tree exactly when the local name of the
\* root, the name with its namespace prefix stripped, is 'schema'; for every
\* other root it returns no schema and exactly one diagnostic, with the code
\* SCHEMA_ERROR at line 1, column 1.
C18_SchemaRootOnly ==
  (pc = "idle" /\ out.op = "loadSchema" /\ ~ParserProblem) =>
    IF getLocalName(result.node[1].name) = StrSchema
    THEN out.success /\ out.errors = <<>>
    ELSE /\ ~out.success
         /\ Len(out.errors) = 1
         /\ out.errors[1].code = "SCHEMA_ERROR"
         /\ out.errors[1].line = 1
         /\ out.errors[1].column = 1

----------------------------------------------------------------------------
(* Properties of XmlValidator.validate at the root of the document         *)

\* C19: when the exact tag name of the document's root is not a key of the
\* schema's element mapping, validate returns exactly one diagnostic, with
\* the code ELEMENT_NOT_FOUND at line 1, column 1, and makes no other
\* check.
C19_RootNotFound ==
  (/\ Validated
   /\ \A e \in Range(schema[1].elements) : e.name # result.node[1].name)
    => /\ ~out.threw
       /\ Len(out.errors) = 1
       /\ out.errors[1].code = "ELEMENT_NOT_FOUND"
       /\ out.errors[1].line = 1
       /\ out.errors[1].column = 1

\* The complex type that requires the attribute id also declares child
\* elements, as BookType of sampleXsdSchema does.
BookParticlesDeclared ==
  \E t \in Range(schema[1].complexTypes) :
    /\ \E a \in Range(t.attributes) : a.name = S(<<"i", "d">>)
    /\ t.elements # <<>>

\* The validated document conforms to the loaded schema: validXml with
\* sampleXsdSchema, or a library of books that all have their id, with or
\* without a namespace declaration on the root, with a library schema.
ConformingLibrary ==
  /\ LibraryDeclared
  /\ \/ xml = validXml /\ BookParticlesDeclared
     \/ xml \in {LibraryDocs[2], LibraryDocs[3]} /\ ~BookParticlesDeclared

\* C20: validateXml returns an empty error list for a document in which
\* every element, attribute and text value conforms to the loaded schema,
\* also when the root element carries an xmlns namespace declaration.
C20_ConformingAccepted ==
  (Validated /\ ConformingLibrary) => ~out.threw /\ out.errors = <<>>

----------------------------------------------------------------------------
(* Properties of the instances XmlHelper keeps between calls               *)

\* The calls of the log in which validate ran and returned its list.
ValidateCalls == {i \in 1..Len(log) : log[i].ref # 0}

\* C15: validating the same tree against the same schema twice with one
\* validator yields identical diagnostics lists, whatever validate calls on
\* other trees were made in between, and a list that a validate call
\* returned is not altered by a later call.
C15_ValidateIdempotent ==
  /\ \A i, j \in ValidateCalls :
       (/\ log[i].parsed = log[j].parsed
        /\ log[i].schema = log[j].schema)
         => log[i].returned = log[j].returned
  /\ \A i \in ValidateCalls : arrays[log[i].ref] = log[i].returned

\* A tree was validated, with diagnostics, then another tree with other
\* diagnostics, then the first tree again, by the same validator.
C15_ValidatedAgain ==
  \E i, k, j \in ValidateCalls :
    /\ i < k /\ k < j
    /\ log[i].parsed = log[j].parsed
    /\ log[i].schema = log[j].schema
    /\ log[k].schema = log[i].schema
    /\ log[k].parsed # log[i].parsed
    /\ log[i].returned # <<>>
    /\ log[k].returned # <<>>
    /\ log[k].returned # log[i].returned
    /\ log[j].ref # log[i].ref

\* C16: one XmlParser is reusable sequentially: what parse(x) returns
\* depends on x alone, not on the parse calls made before it on the same
\* instance, whether they succeeded or failed.
C16_ParseDependsOnInput ==
  \A i, j \in 1..Len(log) :
    log[i].arg = log[j].arg => log[i].parsed = log[j].parsed

\* A document was parsed into a tree, then another document failed to parse
\* on a later line, then the first document was parsed again.
C16_ParsedAgainAfterFailure ==
  \E i, k, j \in 1..Len(log) :
    /\ i < k /\ k < j
    /\ log[i].arg = log[j].arg
    /\ log[k].arg # log[i].arg
    /\ log[i].parsed.node # <<>>
    /\ log[k].parsed.errors # <<>>
    /\ log[k].parsed.errors[1].line > 1

----------------------------------------------------------------------------
(* Properties of the attribute and child checks of XmlValidator            *)

\* C21: for an element whose type is a named complex type,
\* MISSING_REQUIRED_ATTRIBUTE is emitted once for each declared attribute
\* with use=required that is not among the node's attributes, and not for a
\* required attribute that is present, whatever its value, the empty string
\* included.
C21_RequiredAttributes ==
  (Validated /\ RootComplexType # <<>>) =>
    \A a \in Range(RootComplexType[1].attributes) :
      a.use = StrRequired =>
        Len(Naming(out.errors, "MISSING_REQUIRED_ATTRIBUTE", a.name))
          = IF HasAttribute(result.node[1].attributes, a.name) THEN 0 ELSE 1

\* The names of the particles of the root's complex type.
ParticleNames == {p.name : p \in Range(RootComplexType[1].elements)}

----------------------------------------------------------------------------
(* Properties of the content XmlParser.parse keeps                         *)

\* The content of one element a, as a run of tokens: empty elements b, text
\* and white space.
ContentRuns == UNION {[1..k -> {3, 5, 6}] : k \in 0..(MaxTokens - 2)}

\* The element a with that content.
ContentDoc(content) == Spell(<<1>> \o content \o <<2>>)

RECURSIVE ContentNames(_, _)
\* The names of the children that represent a content with child elements:
\* 'b' for each element and '#text' for each run of character data that is
\* not blank, pending telling whether such a run is under way.
ContentNames(content, pending) ==
  IF content = <<>> THEN IF pending THEN <<TextName>> ELSE <<>>
  ELSE IF Head(content) = 3
  THEN (IF pending THEN <<TextName>> ELSE <<>>)
         \o <<Ch("b")>> \o ContentNames(Tail(content), FALSE)
  ELSE ContentNames(Tail(content), pending \/ Head(content) = 5)

\* C23: every run of character data inside an element that is not blank is
\* represented in the tree: as the text of the node when the element has
\* no child elements, and otherwise as a '#text' child at its place among
\* the children, before, between or after the child elements.
C23_CharacterDataKept ==
  pc = "return" =>
    \A content \in ContentRuns :
      xml = ContentDoc(content) =>
        /\ result.node # <<>>
        /\ IF 3 \in Range(content)
           THEN [i \in 1..Len(result.node[1].children) |->
                   result.node[1].children[i].name]
                  = ContentNames(content, FALSE)
           ELSE /\ result.node[1].children = <<>>
                /\ (result.node[1].text # <<>>) = (5 \in Range(content))

----------------------------------------------------------------------------
(* Properties of the schema XsdParser builds                               *)

\* A loadSchema call has built and loaded the schema of the parsed text.
SchemaLoaded == pc = "idle" /\ out.op = "loadSchema" /\ out.success

\* Every element definition of a schema: the global elements and the
\* particles of the complex types.
ElementDefs(sch) ==
  Range(sch.elements) \cup UNION {Range(t.elements) : t \in Range(sch.complexTypes)}

\* The element children of the root of the parsed schema text.
ElementNodes ==
  {child \in Range(result.node[1].children) :
     getLocalName(child.name) = StrElement}

\* C24: every element definition of a schema parseSchema returned has a
\* minOccurs that is a non-negative integer and a maxOccurs that is a
\* non-negative integer or the unbounded sentinel: the values of the
\* attributes, 1 for an absent attribute, and the sentinel exactly for
\* maxOccurs="unbounded".
C24_OccursBounds ==
  SchemaLoaded =>
    /\ \A e \in ElementDefs(schema[1]) :
         /\ ~e.minOccurs.nan /\ e.minOccurs.val >= 0
         /\ \/ e.maxOccurs.unbounded
            \/ ~e.maxOccurs.number.nan /\ e.maxOccurs.number.val >= 0
    /\ \A child \in ElementNodes :
         \A e \in Range(schema[1].elements) :
           e.name = OrElse(Prop(child.attributes, StrName), <<>>) =>
             LET min == Prop(child.attributes, StrMinOccurs)
                 max == Prop(child.attributes, StrMaxOccurs)
             IN /\ min = <<>> => e.minOccurs = [nan |-> FALSE, val |-> 1]
                /\ (min # <<>> /\ min[1] # <<>> /\ AllDigits(min[1]))
                     => e.minOccurs = ToNumber(min[1])
                /\ e.maxOccurs.unbounded = (max = <<StrUnbounded>>)
                /\ max = <<>>
                     => e.maxOccurs.number = [nan |-> FALSE, val |-> 1]
                /\ (max # <<>> /\ max[1] # <<>> /\ AllDigits(max[1]))
                     => e.maxOccurs.number = ToNumber(max[1])

\* The definition of the root element of the validated document.
RootDef == GetDef(schema[1].elements, result.node[1].name)

\* The root element of the validated document is declared with an inline
\* type: its type is the inline marker.
InlineRoot ==
  /\ Validated
  /\ RootDef # <<>>
  /\ StartsWith(RootDef[1].type, StrInline)

\* C25: an element declared with an inline complexType gets no diagnostic,
\* whatever its attributes, children and text; for an element declared with
\* an inline simpleType the diagnostics are those of the copied restriction
\* facets on its text.
C25_InlineUnchecked ==
  InlineRoot =>
    out.errors = IF RootDef[1].restrictions = <<>> THEN <<>>
                 ELSE validateRestrictions(<<>>, textContentOf(result.node[1]),
                                           RootDef[1].restrictions[1], 1, 1,
                                           result.node[1].name).errors

----------------------------------------------------------------------------
(* Properties of the XmlHelper's schema                                    *)

\* Some loadSchema call of the client has returned an empty error list.
LoadSucceeded ==
  \E k \in 1..Len(log) : log[k].op = "loadSchema" /\ log[k].returned = <<>>

\* The client is about to call validateXml.
ValidateXmlNext ==
  pc = "idle" /\ script # <<>> /\ Head(script).op = "validateXml"

\* C26: a validateXml call made before any loadSchema call has succeeded
\* returns the one diagnostic NO_SCHEMA at (1,1) and neither parses the
\* document nor runs a validator; once a loadSchema call has succeeded, a
\* validateXml call whose document fails to parse returns the parser's
\* diagnostics and the validator is not run.
C26_ValidateXmlGuards ==
  [][/\ (ValidateXmlNext /\ ~LoadSucceeded) =>
         /\ out' = Returned("validateXml", <<>>,
                            <<ValidationError(1, 1,
                                              Msg("No schema loaded", <<>>),
                                              "NO_SCHEMA")>>,
                            FALSE)
         /\ pc' = "idle"
         /\ UNCHANGED <<xml, position, line, column, frames, thrown, result,
                        validatorErrors, arrays>>
     /\ (pc = "return" /\ op = "validateXml" /\ Len(result.errors) > 0) =>
         /\ LoadSucceeded
         /\ out' = Returned("validateXml", <<>>, result.errors, FALSE)
         /\ UNCHANGED <<validatorErrors, arrays>>]_vars

\* A validateXml call made after a loadSchema call that failed has returned
\* NO_SCHEMA, the parser still holding the schema text.
C26_NoSchemaAfterFailedLoad ==
  /\ pc = "idle"
  /\ out.op = "validateXml"
  /\ Len(out.errors) = 1
  /\ out.errors[1].code = "NO_SCHEMA"
  /\ Len(log) = 1
  /\ log[1].op = "loadSchema"
  /\ log[1].returned # <<>>
  /\ log[1].arg = RootTexts[3]
  /\ xml = log[1].arg

\* The loadSchema calls of the log that returned an empty error list.
SuccessfulLoads ==
  {k \in 1..Len(log) : log[k].op = "loadSchema" /\ log[k].returned = <<>>}

\* The schema in force after the first n calls of the log: the one built by
\* the last of them that was a successful loadSchema, or none.
SchemaInForce(n) ==
  IF SuccessfulLoads \cap 1..n = {} THEN <<>>
  ELSE LET last == CHOOSE k \in SuccessfulLoads \cap 1..n :
                     \A j \in SuccessfulLoads \cap 1..n : j <= k
       IN parseSchema(log[last].parsed).schema

\* C27: the schema getSchema returns and the schema validateXml validates
\* against are the one built by the most recent loadSchema call that
\* returned an empty error list, or none if no call has: a failing
\* loadSchema changes neither, hasSchema() holds exactly when some call has
\* succeeded, and the schema and the validator are both set or both null.
C27_SchemaInForce ==
  /\ getSchema = SchemaInForce(Len(log))
  /\ validator = SchemaInForce(Len(log))
  /\ hasSchema = (SuccessfulLoads # {})
  /\ (schema = <<>>) = (validator = <<>>)
  /\ \A k \in 1..Len(log) :
       log[k].op = "validateXml" => log[k].schema = SchemaInForce(k)

\* A schema was loaded, a later loadSchema call failed, the next validateXml
\* call used the schema loaded before, and then another schema was loaded.
C27_FailedLoadBetween ==
  /\ pc = "idle"
  /\ Len(log) = 7
  /\ log[2].op = "loadSchema" /\ log[2].returned = <<>>
  /\ log[4].op = "loadSchema" /\ log[4].returned # <<>>
  /\ log[5].op = "validateXml" /\ log[5].schema = SchemaInForce(2)
  /\ log[6].op = "loadSchema" /\ log[6].returned = <<>>
  /\ log[7].op = "validateXml"
  /\ SchemaInForce(2) # SchemaInForce(6)
  /\ getSchema = SchemaInForce(6)

----------------------------------------------------------------------------
(* Properties of XmlParser.parse at the end of the input and in leaf text  *)

RECURSIVE UnclosedRun(_, _, _)
\* Whether a run of tokens is a document that ends while an element is
\* still open: what precedes the end is as in a well-formed document, and
\* depth, the number of open elements, is not 0 at the end.
UnclosedRun(run, depth, rooted) ==
  IF run = <<>> THEN depth > 0
  ELSE LET t == TokenText[Head(run)]
       IN IF t = TokenText[1]
          THEN (depth > 0 \/ ~rooted) /\ UnclosedRun(Tail(run), depth + 1, TRUE)
          ELSE IF t = TokenText[2]
          THEN depth > 0 /\ UnclosedRun(Tail(run), depth - 1, rooted)
          ELSE IF t = TokenText[3]
          THEN (depth > 0 \/ ~rooted) /\ UnclosedRun(Tail(run), depth, TRUE)
          ELSE IF t = TokenText[4] THEN FALSE
          ELSE IF t = TokenText[5]
          THEN depth > 0 /\ UnclosedRun(Tail(run), depth, rooted)
          ELSE UnclosedRun(Tail(run), depth, rooted)

\* The documents of at most MaxTokens tokens that end that way.
UnclosedDocs ==
  {Spell(run) : run \in {r \in TokenRuns(MaxTokens) : UnclosedRun(r, 0, FALSE)}}

\* C28: for input that ends while an element opened by a start tag is
\* still open, such as '<a>' or '<a><a>x</a>', parse returns no tree and one
\* PARSE_ERROR diagnostic.
C28_UnclosedRejected ==
  (pc = "return" /\ xml \in UnclosedDocs) =>
    /\ result.node = <<>>
    /\ Len(result.errors) = 1
    /\ result.errors[1].code = "PARSE_ERROR"

\* C29: the text of an element without child elements is its character
\* data without the white space at its ends: the white space inside the
\* data, as in '<name>John Doe</name>' of simpleXml, is kept.
C29_LeafTextTrimmed ==
  pc = "return" =>
    /\ \A data \in Range(LeafData) :
         xml = LeafDoc(data) =>
           /\ result.node # <<>>
           /\ result.node[1].text
                = IF Trim(data) = <<>> THEN <<>> ELSE <<Trim(data)>>
    /\ xml = simpleXml =>
         /\ result.node # <<>>
         /\ result.node[1].children[1].text
              = <<S(<<"J", "o", "h", "n", " ", "D", "o", "e">>)>>

----------------------------------------------------------------------------
(* Properties of the diagnostics XmlValidator.validate can produce         *)

\* C30: validate never reports ELEMENT_MISMATCH: the definition of the root
\* is looked up under the node's own name, and each particle is checked
\* against the children of the particle's name only.
C30_NoElementMismatch ==
  Validated => CodeCount(out.errors, "ELEMENT_MISMATCH") = 0

====
